---- MODULE Spec2Model ----
(***************************************************************************)
(* A model of the terrain core of New_Horizons (vibecode): the chunk       *)
(* streaming manager, the height evaluators, the noise construction and    *)
(* the flora / prop scatter.                                               *)
(*                                                                         *)
(* Numbers.  JavaScript numbers are modelled by integers in fixed point:   *)
(*   world coordinates   in tenths of a world unit        (CoordDen)       *)
(*   noiseScale          in hundredths                                     *)
(*   roughness, gravity  in tenths                                         *)
(*   noise samples       in units of 1/NoiseDen                            *)
(*   heights             in units of 1/HeightDen                           *)
(* Strings are sequences of UTF-16 code units.                             *)
(***************************************************************************)
EXTENDS Integers, Sequences, FiniteSets, TLC

VARIABLES
    \* ---- ChunkManager (components/ChunkManager.tsx) ----
    observer,     \* camera.position (x, z) read by the last useFrame tick
    ticked,       \* whether useFrame has run at least once
    chunks,       \* the useState value: sequence of {key, x, z}
    biome,        \* the biome prop of ChunkManager
    noiseRef,     \* identity of the memoised noise2D function object
    mounted,      \* the keyed Terrain instances with their useMemo deps
    built,        \* coordinates whose geometry factory ran in the last commit
    rendered,     \* whether the last step committed a re-render
    lastOp,       \* the step taken last: "none", "tick", "biome" or "parent"
    \* ---- noise construction (ChunkManager.tsx:30, utils/terrainMath.ts) ----
    mathRandomState,  \* hidden state of the engine's Math.random generator
    noisePrev,    \* the noise field constructed before the last one
    noiseCur,     \* the noise field constructed last: {by, seed, perm}
    \* ---- height evaluators (utils/mockGenerator.ts, utils/terrainMath.ts) ----
    hx, hz,       \* the world coordinates evaluated, in tenths
    hLayers,      \* terrain.layers
    hPerm,        \* the permutation table of the noise function in use
    hOut,         \* the value each evaluator returned, in units of 1/HeightDen
    \* ---- PropManager (components/PropManager.tsx) ----
    pBiome,       \* the biome prop
    pNoise,       \* the permutation table of the noise2D prop
    propMounted,  \* chunk coordinates with a mounted PropManager
    propPrev,     \* the spawnedProps run before the last one
    propCur,      \* the last spawnedProps run: {done, chunk, chunkSize, noise, list}
    \* ---- FloraSystem (components/FloraSystem.tsx) ----
    fBiome,       \* the biome whose terrain and parameters are passed down
    floraMounted, \* chunk coordinates with a mounted FloraSystem
    floraPrev,    \* the layout-effect run before the last one
    floraCur,     \* the last layout-effect run: {done, chunk, noise, list}
    \* ---- the seed line of PropManager evaluated on its own ----
    hashIn,       \* biome.name, propIndex, chunkX and chunkZ of the last evaluation
    hashOut,      \* what hashString and the seed line gave for them
    \* ---- Weather (components/Weather.tsx) ----
    wParams,        \* the params prop: {type, intensity, speed}
    wActive,        \* the active prop
    intensityValue, \* intensityValue.current
    wVisible,       \* pointsRef.current.visible
    wPositions,     \* the position attribute: one <<x, y, z>> per particle
    wVelocities,    \* velocities: one <<vx, vy, vz>> per particle
    wCamera,        \* state.camera.position
    wClock,          \* the time the frames run so far have covered
    \* ---- App (App.tsx) ----
    weatherEnabled,  \* the weatherEnabled state
    weatherActive,   \* the weatherActive state
    armed,           \* the timer held by the weather effect is pending
    chained,         \* pending timers scheduled from timer callbacks
    nextToggle,      \* the delay of the timer scheduled last, in milliseconds
    isGeneratingRef, \* isGeneratingRef.current
    isGenerating,    \* the isGenerating state
    loadingStep,     \* the loadingStep state
    pipelines,       \* the invocations of handleRegenerate waiting at an await
    appBiome,        \* the biome state: which run made it, and its two URLs
    runs,            \* invocations of handleRegenerate that passed the guard
    serviceCalls,    \* calls made to each generation service
    lastRun,         \* the invocation that finished last, with its outcomes
    appOp,            \* the last step of App
    \* ---- getAlienAmbienceV13 (services/elevenLabsV13.ts) ----
    audioCalls,         \* per call: its biomeId, its position and the worker it waits for
    activeV13Promises,  \* per biomeId the worker held by the entry, 0 when there is none
    audioWorkers,       \* the workers started so far: {biome, status}
    audioDB,             \* the biomeIds with audio in IndexedDB
    \* ---- MeshyProp (components/MeshyProp.tsx) ----
    meshyProps,      \* per instance: mounted, prop.prompt, its state and ref, its promise
    modelCache,      \* the prompts that have an entry in modelCache
    generateStarts,   \* per prompt, how many times generate3DModel was called
    \* ---- generate3DModel (services/meshy.ts) ----
    mKey,           \* getApiKey() gives a key
    mPc,            \* where the call of generate3DModel stands
    mStage,         \* "preview" or "refine"
    mI,             \* i of the retry loop
    retryDelay,     \* retryDelay of the retry loop
    mPosts,         \* POST requests sent by the create call
    mWaits,         \* the delays the create call has waited, in milliseconds
    mResponse,      \* the response that settled last
    attempt,        \* attempt of pollTask
    mPolls,         \* status requests sent by the pollTask call
    mPolled,        \* taskId of the pollTask call
    previewTaskId,  \* previewTaskId of generate3DModel
    refineTaskId,   \* refineTaskId of generate3DModel
    mResult,         \* "glb" once the URL is returned, or the message thrown
    \* ---- the gallery (services/ThreeDStorage.ts) ----
    savedBiome,    \* the biome handed to saveBiomeToGallery
    galleryDocs,   \* the documents of the collection, the id of a document its index
    loadedBiomes,  \* what the last loadBiomeById or fetchGalleryBiomes returned
    galleryOp      \* the last call and the document id it made or read

chunkVars == <<observer, ticked, chunks, biome, noiseRef, mounted, built, rendered, lastOp>>

rngVars == <<mathRandomState>>

noiseVars == <<noisePrev, noiseCur>>

heightVars == <<hx, hz, hLayers, hPerm, hOut>>

propVars == <<pBiome, pNoise, propMounted, propPrev, propCur>>

floraVars == <<fBiome, floraMounted, floraPrev, floraCur>>

hashVars == <<hashIn, hashOut>>

weatherVars ==
    <<wParams, wActive, intensityValue, wVisible, wPositions, wVelocities, wCamera, wClock>>

appVars ==
    <<weatherEnabled, weatherActive, armed, chained, nextToggle, isGeneratingRef, isGenerating,
      loadingStep, pipelines, appBiome, runs, serviceCalls, lastRun, appOp>>

audioVars == <<audioCalls, activeV13Promises, audioWorkers, audioDB>>

meshyPropVars == <<meshyProps, modelCache, generateStarts>>

meshyVars ==
    <<mKey, mPc, mStage, mI, retryDelay, mPosts, mWaits, mResponse, attempt, mPolls, mPolled,
      previewTaskId, refineTaskId, mResult>>

galleryVars == <<savedBiome, galleryDocs, loadedBiomes, galleryOp>>

vars == <<chunkVars, rngVars, noiseVars, heightVars, propVars, floraVars, hashVars, weatherVars, appVars, audioVars, meshyPropVars, meshyVars, galleryVars>>

-----------------------------------------------------------------------------
(* Program constants                                                       *)

CHUNK_SIZE == 100

RENDER_DISTANCE == 2

(* Bounds of the model                                                     *)

\* The observer moves on a grid of half chunks, from -MaxCamNeg to MaxCamPos
\* half chunks on each axis, by at most MaxStride half chunks per frame.
MaxCamNeg == 1

MaxCamPos == 5

MaxStride == 1

HalfChunk == CHUNK_SIZE \div 2

CamPositions == { HalfChunk * k : k \in (0 - MaxCamNeg)..MaxCamPos }

Biomes == {"biomeA", "biomeB"}

Abs(n) == IF n < 0 THEN 0 - n ELSE n

-----------------------------------------------------------------------------
(* JavaScript primitives used by the chunk manager                         *)

\* Math.round(n / d) for an integer n and d > 0: floor(n/d + 1/2), so a half
\* rounds towards +Infinity.
MathRoundTruncating(n, d) == IF n >= 0 THEN n \div d ELSE 0 - ((0 - n) \div d)

MathRound(n, d) == (2 * n + d) \div (2 * d)

RECURSIVE DigitChars(_)
DigitChars(n) ==
    IF n < 10 THEN <<48 + n>>
    ELSE DigitChars(n \div 10) \o <<48 + (n % 10)>>

\* Number-to-string conversion of a template literal, for an integer.
NumberToString(n) == IF n < 0 THEN <<45>> \o DigitChars(0 - n) ELSE DigitChars(n)

\* `${cx},${cz}`
ChunkKey(cx, cz) == NumberToString(cx) \o <<44>> \o NumberToString(cz)

\* The default comparison of Array.prototype.sort: by UTF-16 code units.
RECURSIVE StringLess(_, _)
StringLess(a, b) ==
    IF b = <<>> THEN FALSE
    ELSE IF a = <<>> THEN TRUE
    ELSE IF Head(a) # Head(b) THEN Head(a) < Head(b)
    ELSE StringLess(Tail(a), Tail(b))

RECURSIVE InsertSorted(_, _)
InsertSorted(s, e) ==
    IF s = <<>> THEN <<e>>
    ELSE IF StringLess(e, Head(s)) THEN <<e>> \o s
    ELSE <<Head(s)>> \o InsertSorted(Tail(s), e)

\* Array.prototype.sort() with the default comparison.
RECURSIVE ArraySort(_)
ArraySort(s) == IF s = <<>> THEN <<>> ELSE InsertSorted(ArraySort(Tail(s)), Head(s))

\* Array.prototype.join(sep)
RECURSIVE ArrayJoin(_, _)
ArrayJoin(s, sep) ==
    IF s = <<>> THEN <<>>
    ELSE IF Len(s) = 1 THEN Head(s)
    ELSE Head(s) \o sep \o ArrayJoin(Tail(s), sep)

\* list.map(c => c.key)
RECURSIVE KeysOf(_)
KeysOf(list) == IF list = <<>> THEN <<>> ELSE <<Head(list).key>> \o KeysOf(Tail(list))

-----------------------------------------------------------------------------
(* ChunkManager                                                            *)

WindowWidth == 2 * RENDER_DISTANCE + 1

\* The double loop that fills newChunks, x outer and z inner: the array
\* after the pushes from step i on (step i has x = i div width - R and
\* z = i mod width - R).
RECURSIVE PushChunks(_, _, _)
PushChunks(currentChunkX, currentChunkZ, i) ==
    IF i >= WindowWidth * WindowWidth THEN <<>>
    ELSE LET x  == (i \div WindowWidth) - RENDER_DISTANCE
             z  == (i % WindowWidth) - RENDER_DISTANCE
             cx == currentChunkX + x
             cz == currentChunkZ + z
         IN  << [key |-> ChunkKey(cx, cz), x |-> cx, z |-> cz] >>
             \o PushChunks(currentChunkX, currentChunkZ, i + 1)

NewChunks(currentChunkX, currentChunkZ) == PushChunks(currentChunkX, currentChunkZ, 0)

\* The updater handed to setChunks: which array object it returns.
SetChunksUpdaterNoCheck(prev, newChunks) == [ref |-> "new", value |-> newChunks]

SetChunksUpdaterKeeping(prev, newChunks) ==
    [ref |-> "new",
     value |-> SelectSeq(prev, LAMBDA c : \A i \in 1..Len(newChunks) : newChunks[i].key # c.key)
               \o newChunks]

SetChunksUpdater(prev, newChunks) ==
    LET prevKeys == ArrayJoin(ArraySort(KeysOf(prev)), <<124>>)
        newKeys  == ArrayJoin(ArraySort(KeysOf(newChunks)), <<124>>)
    IN  IF prevKeys = newKeys
        THEN [ref |-> "prev", value |-> prev]
        ELSE [ref |-> "new", value |-> newChunks]

\* The dependency list of the geometry useMemo of the Terrain of `chunk`.
TerrainDeps(chunk, b, nref) == <<b, nref, chunk.x, chunk.z>>

\* The Terrain instances after a commit of `list`: one per key.
MountedAfter(list, b, nref) ==
    { [key |-> list[i].key, deps |-> TerrainDeps(list[i], b, nref)] : i \in 1..Len(list) }

\* Whether rendering `chunk` runs the geometry factory: the instance of that
\* key is new, or one of its dependencies changed.
FactoryRunsAlways(chunk, b, nref, old) == TRUE

FactoryRuns(chunk, b, nref, old) ==
    ~ \E inst \in old : inst.key = chunk.key /\ inst.deps = TerrainDeps(chunk, b, nref)

RECURSIVE BuiltBy(_, _, _, _)
BuiltBy(list, b, nref, old) ==
    IF list = <<>> THEN <<>>
    ELSE (IF FactoryRuns(Head(list), b, nref, old)
          THEN << <<Head(list).x, Head(list).z>> >> ELSE <<>>)
         \o BuiltBy(Tail(list), b, nref, old)

\* The list the render maps over: the committed state.
RenderedListStale(prevState, nextState) == prevState

RenderedList(prevState, nextState) == nextState

\* One frame: the useFrame callback, and the commit it causes.
Tick(px, pz) ==
    LET currentChunkX == MathRound(px, CHUNK_SIZE)
        currentChunkZ == MathRound(pz, CHUNK_SIZE)
    IN  \E r \in { SetChunksUpdater(chunks, NewChunks(currentChunkX, currentChunkZ)) } :
        \E list \in { RenderedList(chunks, r.value) } :
            /\ observer' = [x |-> px, z |-> pz]
            /\ ticked' = TRUE
            /\ lastOp' = "tick"
            /\ chunks' = r.value
            /\ rendered' = (r.ref = "new")
            /\ IF r.ref = "new"
               THEN /\ mounted' = MountedAfter(list, biome, noiseRef)
                    /\ built' = BuiltBy(list, biome, noiseRef, mounted)
               ELSE /\ mounted' = mounted
                    /\ built' = <<>>
            /\ UNCHANGED <<biome, noiseRef>>

\* The parent hands a new biome: noise2D is memoised on biome.terrain.
SetBiome(b) ==
    /\ b # biome
    /\ biome' = b
    /\ lastOp' = "biome"
    /\ noiseRef' = 1 - noiseRef
    /\ rendered' = TRUE
    /\ mounted' = MountedAfter(chunks, b, 1 - noiseRef)
    /\ built' = BuiltBy(chunks, b, 1 - noiseRef, mounted)
    /\ UNCHANGED <<observer, ticked, chunks>>

\* The parent re-renders with the same biome.
ParentRerender ==
    /\ rendered' = TRUE
    /\ lastOp' = "parent"
    /\ mounted' = MountedAfter(chunks, biome, noiseRef)
    /\ built' = BuiltBy(chunks, biome, noiseRef, mounted)
    /\ UNCHANGED <<observer, ticked, chunks, biome, noiseRef>>
    /\ UNCHANGED <<rngVars, noiseVars, heightVars, propVars, floraVars, hashVars, weatherVars, appVars, audioVars, meshyPropVars, meshyVars, galleryVars>>

InitChunks ==
    /\ observer = [x |-> 0, z |-> 10]
    /\ ticked = FALSE
    /\ chunks = <<>>
    /\ biome = "biomeA"
    /\ noiseRef = 0
    /\ mounted = {}
    /\ built = <<>>
    /\ rendered = FALSE
    /\ lastOp = "none"

Frame ==
    \E px \in CamPositions, pz \in CamPositions :
        /\ Abs(px - observer.x) <= MaxStride * HalfChunk
        /\ Abs(pz - observer.z) <= MaxStride * HalfChunk
        /\ Tick(px, pz)
        /\ UNCHANGED <<rngVars, noiseVars, heightVars, propVars, floraVars, hashVars, weatherVars, appVars, audioVars, meshyPropVars, meshyVars, galleryVars>>

NewBiome ==
    \E b \in Biomes :
        /\ SetBiome(b)
        /\ UNCHANGED <<rngVars, noiseVars, heightVars, propVars, floraVars, hashVars, weatherVars, appVars, audioVars, meshyPropVars, meshyVars, galleryVars>>

NextChunks == Frame \/ NewBiome \/ ParentRerender

-----------------------------------------------------------------------------
(* Noise construction                                                      *)
(*                                                                         *)
(* createNoise2D(random) of simplex-noise shuffles a permutation table     *)
(* with the generator it is handed (Math.random when it is handed none)    *)
(* and samples by table lookups.  The table has PermSize entries here      *)
(* (256 in the library) and a sample is one lookup at the lattice cell of  *)
(* the argument.                                                           *)

PermSize == 5

NoiseDen == PermSize - 1

\* Seeds of terrain.seed.
Seeds == {0, 1, 12345, 20260101}

\* The state s of createRandom as two 16-bit limbs <<high, low>>.
SeedLimbs(seed) == <<(seed \div 65536) % 65536, seed % 65536>>

\* s = (s * 1664525 + 1013904223) % 4294967296, on the limbs:
\* 1664525 = 25 * 2^16 + 26125 and 1013904223 = 15470 * 2^16 + 62303.
LcgNext(s) ==
    LET low  == s[2] * 26125 + 62303
        high == s[1] * 26125 + s[2] * 25 + 15470 + (low \div 65536)
    IN  <<high % 65536, low % 65536>>

\* ~~(random() * k) for the value (s >>> 0) / 4294967296 and a small k.
LcgScaled(s, k) == (s[1] * k + ((s[2] * k) \div 65536)) \div 65536

\* Math.random(): a generator with hidden state shared by the whole page.
RngModulus == 8

MathRandomNext(s) == (5 * s + 3) % RngModulus

\* ~~(Math.random() * k) for the value s / RngModulus.
MathRandomScaled(s, k) == (s * k) \div RngModulus

RECURSIVE MathRandomAfter(_, _)
MathRandomAfter(s, calls) == IF calls = 0 THEN s ELSE MathRandomAfter(MathRandomNext(s), calls - 1)

IdentityTable == [i \in 1..PermSize |-> i - 1]

Swap(p, i, r) == [p EXCEPT ![i + 1] = p[r + 1], ![r + 1] = p[i + 1]]

\* buildPermutationTable(random) with random = createRandom(seed): for i from
\* 0 to size - 2, r = i + ~~(random() * (size - i)), swap p[i] and p[r].
RECURSIVE ShuffleSeeded(_, _, _)
ShuffleSeeded(p, i, s) ==
    IF i >= PermSize - 1 THEN p
    ELSE LET s1 == LcgNext(s)
             r  == i + LcgScaled(s1, PermSize - i)
         IN  ShuffleSeeded(Swap(p, i, r), i + 1, s1)

\* buildPermutationTable(Math.random).
RECURSIVE ShuffleMathRandom(_, _, _)
ShuffleMathRandom(p, i, s) ==
    IF i >= PermSize - 1 THEN p
    ELSE LET s1 == MathRandomNext(s)
             r  == i + MathRandomScaled(s1, PermSize - i)
         IN  ShuffleMathRandom(Swap(p, i, r), i + 1, s1)

\* createNoise2D(createRandom(seed))
SeededTable(seed) == ShuffleSeeded(IdentityTable, 0, SeedLimbs(seed))

\* noise2D(x, y) for arguments a and b in thousandths: a sample in
\* -NoiseDen..NoiseDen, in units of 1/NoiseDen.
Noise2D(perm, a, b) ==
    LET i == a % PermSize
        j == b % PermSize
    IN  2 * perm[((i + perm[j + 1]) % PermSize) + 1] - NoiseDen

NoNoise == [by |-> "none", seed |-> 0, perm |-> <<>>]

\* ChunkManager.tsx line 30: useMemo(() => createNoise2D(), [biome.terrain]).
MountChunkManager(seed) ==
    /\ noisePrev' = noiseCur
    /\ noiseCur' = [by |-> "ChunkManager", seed |-> seed,
                    perm |-> ShuffleMathRandom(IdentityTable, 0, mathRandomState)]
    /\ mathRandomState' = MathRandomAfter(mathRandomState, PermSize - 1)

\* The ChunkManager revision that mounts FloraSystem:
\* useMemo(() => createNoise2D(createRandom(biome.terrain.seed)), [biome.terrain.seed]).
MountChunkManagerSeeded(seed) ==
    /\ noisePrev' = noiseCur
    /\ noiseCur' = [by |-> "ChunkManagerSeeded", seed |-> seed, perm |-> SeededTable(seed)]
    /\ UNCHANGED mathRandomState

\* new TerrainMath(rules)
NewTerrainMath(seed) ==
    /\ noisePrev' = noiseCur
    /\ noiseCur' = [by |-> "TerrainMath", seed |-> seed, perm |-> SeededTable(seed)]
    /\ UNCHANGED mathRandomState

\* Any other caller of Math.random (weather particles, the weather timer).
MathRandomElsewhere ==
    /\ mathRandomState' = MathRandomNext(mathRandomState)
    /\ UNCHANGED <<chunkVars, noiseVars, heightVars, propVars, floraVars, hashVars, weatherVars, appVars, audioVars, meshyPropVars, meshyVars, galleryVars>>

IdleRng == mathRandomState = 0

InitRng == mathRandomState \in 0..(RngModulus - 1)

IdleNoise ==
    /\ noisePrev = NoNoise
    /\ noiseCur = NoNoise

InitNoise == IdleNoise

Unseeded ==
    \E seed \in Seeds :
        /\ MountChunkManager(seed)
        /\ UNCHANGED <<chunkVars, heightVars, propVars, floraVars, hashVars, weatherVars, appVars, audioVars, meshyPropVars, meshyVars, galleryVars>>

Seeded ==
    \E seed \in Seeds :
        /\ MountChunkManagerSeeded(seed)
        /\ UNCHANGED <<chunkVars, heightVars, propVars, floraVars, hashVars, weatherVars, appVars, audioVars, meshyPropVars, meshyVars, galleryVars>>

PlayerMath ==
    \E seed \in Seeds :
        /\ NewTerrainMath(seed)
        /\ UNCHANGED <<chunkVars, heightVars, propVars, floraVars, hashVars, weatherVars, appVars, audioVars, meshyPropVars, meshyVars, galleryVars>>

NextNoise == Unseeded \/ Seeded \/ PlayerMath \/ MathRandomElsewhere

-----------------------------------------------------------------------------
(* Height evaluators                                                       *)
(*                                                                         *)
(* A layer is [noiseScale (hundredths), heightScale, roughness (tenths),   *)
(* offsetX, offsetZ (world units)].  Heights are in units of 1/HeightDen.  *)

CoordDen == 10

HeightDen == 40 * NoiseDen

Layer(ns, hs, r, ox, oz) ==
    [noiseScale |-> ns, heightScale |-> hs, roughness |-> r, offsetX |-> ox, offsetZ |-> oz]

\* The two layers of generateMockBiome, a layer with negative roughness and
\* a layer without roughness.
LayerPool ==
    { Layer(1, 15, 5, 0, 0), Layer(5, 2, 8, 1000, 1000),
      Layer(2, 3, -5, 0, 7), Layer(2, 4, 0, 3, 0) }

MaxLayers == 2

LayerLists == UNION { [1..n -> LayerPool] : n \in 0..MaxLayers }

\* (coordinate + offset) * noiseScale, in thousandths.
NoiseArg(c, offset, noiseScale) == (c + CoordDen * offset) * noiseScale

\* getTerrainHeight(globalX, globalY, layers, noise2D)
RECURSIVE SumLayers(_, _, _, _)
SumLayers(x, z, layers, perm) ==
    IF layers = <<>> THEN 0
    ELSE LET layer == Head(layers)
             ax == NoiseArg(x, layer.offsetX, layer.noiseScale)
             az == NoiseArg(z, layer.offsetZ, layer.noiseScale)
             n  == 40 * Noise2D(perm, ax, az)
                   + (IF layer.roughness > 0
                      THEN 2 * layer.roughness * Noise2D(perm, ax * 2, az * 2)
                      ELSE 0)
         IN  n * layer.heightScale + SumLayers(x, z, Tail(layers), perm)

getTerrainHeight(x, z, layers, perm) ==
    IF Len(layers) > 0
    THEN SumLayers(x, z, layers, perm)
    ELSE 40 * Noise2D(perm, x * 2, z * 2) * 5

\* The height loop written out in the second Terrain of Terrain.tsx.
RECURSIVE TerrainSumLayers(_, _, _, _)
TerrainSumLayers(x, z, layers, perm) ==
    IF layers = <<>> THEN 0
    ELSE LET layer == Head(layers)
             ax == NoiseArg(x, layer.offsetX, layer.noiseScale)
             az == NoiseArg(z, layer.offsetZ, layer.noiseScale)
             n  == 40 * Noise2D(perm, ax, az)
                   + (IF layer.roughness > 0
                      THEN 2 * layer.roughness * Noise2D(perm, ax * 2, az * 2)
                      ELSE 0)
         IN  n * layer.heightScale + TerrainSumLayers(x, z, Tail(layers), perm)

TerrainInlineHeight(x, z, layers, perm) ==
    IF Len(layers) > 0
    THEN TerrainSumLayers(x, z, layers, perm)
    ELSE 40 * Noise2D(perm, x * 2, z * 2) * 5

\* TerrainMath.getHeight(x, y)
RECURSIVE TerrainMathGetHeight(_, _, _, _)
TerrainMathGetHeight(x, z, layers, perm) ==
    IF layers = <<>> THEN 0
    ELSE LET layer == Head(layers)
             ax == NoiseArg(x, layer.offsetX, layer.noiseScale)
             az == NoiseArg(z, layer.offsetZ, layer.noiseScale)
             n  == 40 * Noise2D(perm, ax, az)
                   + 2 * layer.roughness * Noise2D(perm, ax * 4, az * 4)
                   + layer.roughness * Noise2D(perm, ax * 8, az * 8)
         IN  n * layer.heightScale + TerrainMathGetHeight(x, z, Tail(layers), perm)

Evaluators == {"getTerrainHeight", "Terrain", "TerrainMath"}

NotEvaluated == [done |-> FALSE, value |-> 0]

\* World coordinates sampled, in tenths: 0, 0.5, 1.3, 25 and -7.2.
HeightCoords == {0, 5, 13, 250, -72}

EvalGetTerrainHeight ==
    /\ ~hOut["getTerrainHeight"].done
    /\ hOut' = [hOut EXCEPT !["getTerrainHeight"] =
                    [done |-> TRUE, value |-> getTerrainHeight(hx, hz, hLayers, hPerm)]]
    /\ UNCHANGED <<hx, hz, hLayers, hPerm>>
    /\ UNCHANGED <<chunkVars, rngVars, noiseVars, propVars, floraVars, hashVars, weatherVars, appVars, audioVars, meshyPropVars, meshyVars, galleryVars>>

EvalTerrainInline ==
    /\ ~hOut["Terrain"].done
    /\ hOut' = [hOut EXCEPT !["Terrain"] =
                    [done |-> TRUE, value |-> TerrainInlineHeight(hx, hz, hLayers, hPerm)]]
    /\ UNCHANGED <<hx, hz, hLayers, hPerm>>
    /\ UNCHANGED <<chunkVars, rngVars, noiseVars, propVars, floraVars, hashVars, weatherVars, appVars, audioVars, meshyPropVars, meshyVars, galleryVars>>

EvalTerrainMath ==
    /\ ~hOut["TerrainMath"].done
    /\ hOut' = [hOut EXCEPT !["TerrainMath"] =
                    [done |-> TRUE, value |-> TerrainMathGetHeight(hx, hz, hLayers, hPerm)]]
    /\ UNCHANGED <<hx, hz, hLayers, hPerm>>
    /\ UNCHANGED <<chunkVars, rngVars, noiseVars, propVars, floraVars, hashVars, weatherVars, appVars, audioVars, meshyPropVars, meshyVars, galleryVars>>

IdleHeight ==
    /\ hx = 0
    /\ hz = 0
    /\ hLayers = <<>>
    /\ hPerm = IdentityTable
    /\ hOut = [e \in Evaluators |-> NotEvaluated]

InitHeight ==
    /\ hx \in HeightCoords
    /\ hz \in HeightCoords
    /\ hLayers \in LayerLists
    /\ hPerm \in { SeededTable(seed) : seed \in Seeds }
    /\ hOut = [e \in Evaluators |-> NotEvaluated]

NextHeight == EvalGetTerrainHeight \/ EvalTerrainInline \/ EvalTerrainMath

-----------------------------------------------------------------------------
(* Prop scatter (PropManager)                                              *)
(*                                                                         *)
(* A biome is [name, props, terrain, parameters]; a prop definition is     *)
(* [id, density (hundredths)]; gravity is in tenths.                       *)

Str_p1 == <<112, 49>>

Str_p2 == <<112, 50>>

\* The biome of generateMockBiome under a one-letter name, a cold
\* high-gravity biome and a hot low-gravity one.
MossyBiome ==
    [name |-> <<77>>,
     props |-> <<[id |-> Str_p1, density |-> 10], [id |-> Str_p2, density |-> 5]>>,
     terrain |-> [layers |-> <<Layer(1, 15, 5, 0, 0), Layer(5, 2, 8, 1000, 1000)>>,
                  waterLevel |-> 0, seed |-> 12345],
     parameters |-> [temperature |-> 20, gravity |-> 10, atmosphereDensity |-> "Standard"]]

IceBiome ==
    [name |-> <<73>>,
     props |-> <<[id |-> Str_p1, density |-> 5], [id |-> Str_p2, density |-> 10]>>,
     terrain |-> [layers |-> <<Layer(2, 4, 0, 3, 0)>>, waterLevel |-> -1, seed |-> 1],
     parameters |-> [temperature |-> -40, gravity |-> 20, atmosphereDensity |-> "Thick"]]

DuneBiome ==
    [name |-> <<68>>,
     props |-> <<[id |-> Str_p2, density |-> 10]>>,
     terrain |-> [layers |-> <<>>, waterLevel |-> 2, seed |-> 20260101],
     parameters |-> [temperature |-> 80, gravity |-> 3, atmosphereDensity |-> "Thin"]]

ScatterBiomes == {MossyBiome, IceBiome, DuneBiome}

\* A biome as generateBiomeData returns it: the reply of the language model
\* supplies name and terrain, and no props are set.
GeneratedBiome ==
    [name |-> <<71>>,
     terrain |-> [layers |-> <<Layer(1, 15, 5, 0, 0)>>, waterLevel |-> 0, seed |-> 1],
     parameters |-> [temperature |-> 20, gravity |-> 10, atmosphereDensity |-> "Standard"]]

\* A reply without terrain.layers, with props added.
LayerlessBiome ==
    [name |-> <<76>>,
     props |-> <<[id |-> Str_p1, density |-> 10]>>,
     terrain |-> [waterLevel |-> -3, seed |-> 1],
     parameters |-> [temperature |-> 20, gravity |-> 10, atmosphereDensity |-> "Standard"]]

\* A reply with an empty props list and layers of zero and negative
\* noiseScale.
FlatScaleBiome ==
    [name |-> <<70>>,
     props |-> <<>>,
     terrain |-> [layers |-> <<Layer(0, 4, 5, 0, 0), Layer(-2, 2, 0, 1, 0)>>,
                  waterLevel |-> 0, seed |-> 12345],
     parameters |-> [temperature |-> 20, gravity |-> 10, atmosphereDensity |-> "Standard"]]

\* The same layers with one definition to scatter.
NegativeScaleBiome ==
    [name |-> <<78>>,
     props |-> <<[id |-> Str_p2, density |-> 10]>>,
     terrain |-> [layers |-> <<Layer(0, 4, 5, 0, 0), Layer(-2, 2, 0, 1, 0)>>,
                  waterLevel |-> -9, seed |-> 12345],
     parameters |-> [temperature |-> 20, gravity |-> 10, atmosphereDensity |-> "Standard"]]

MalformedBiomes == {GeneratedBiome, LayerlessBiome, FlatScaleBiome, NegativeScaleBiome}

\* Definitions of density 0 and 0.2 on a shore.
SparseBiome ==
    [name |-> <<80>>,
     props |-> <<[id |-> Str_p1, density |-> 0], [id |-> Str_p2, density |-> 20]>>,
     terrain |-> [layers |-> <<Layer(2, 2, 0, 3, 0)>>, waterLevel |-> 0, seed |-> 1],
     parameters |-> [temperature |-> 20, gravity |-> 10, atmosphereDensity |-> "Standard"]]

\* Definitions of density 1 and 0.2 above the water.
DenseBiome ==
    [name |-> <<66>>,
     props |-> <<[id |-> Str_p1, density |-> 100], [id |-> Str_p2, density |-> 20]>>,
     terrain |-> [layers |-> <<Layer(2, 2, 0, 3, 0)>>, waterLevel |-> -3, seed |-> 1],
     parameters |-> [temperature |-> 20, gravity |-> 10, atmosphereDensity |-> "Standard"]]

\* The biomes handed to PropManager.
PropBiomes == ScatterBiomes \cup MalformedBiomes \cup {SparseBiome, DenseBiome}

\* Chunk coordinates mounted and unmounted.
ScatterChunks == {<<0, 0>>, <<1, -1>>}

\* hash = (hash << 5) - hash + charCode; hash |= 0, on the unsigned 32-bit
\* pattern of hash as two 16-bit limbs <<high, low>>.
HashStep(h, charCode) ==
    LET low  == h[2] * 31 + charCode
        high == h[1] * 31 + (low \div 65536)
    IN  <<high % 65536, low % 65536>>

RECURSIVE HashLoop(_, _)
HashLoop(h, str) == IF str = <<>> THEN h ELSE HashLoop(HashStep(h, Head(str)), Tail(str))

\* The signed reading of the pattern after hash |= 0, as <<high, low>> with
\* value high * 65536 + low and high in -32768..32767.
SignedInt32(h) == <<IF h[1] < 32768 THEN h[1] ELSE h[1] - 65536, h[2]>>

\* Math.abs(hash) on that reading.  The result is a double: for the pattern
\* 0x80000000 it is 2^31, high = 32768.
AbsOfSigned(v) ==
    IF v[1] >= 0 THEN v
    ELSE IF v[2] = 0 THEN <<0 - v[1], 0>>
    ELSE <<(0 - v[1]) - 1, 65536 - v[2]>>

\* Math.abs of the signed reading of the pattern, where it is below 2^31.
AbsInt32(h) ==
    AbsOfSigned(SignedInt32(h))[1] * 65536 + AbsOfSigned(SignedInt32(h))[2]

HashFoldNone(h) == SignedInt32(h)

\* return Math.abs(hash), as <<high, low>>
HashFold(h) == AbsOfSigned(SignedInt32(h))

\* hashString(str) as <<high, low>>
hashStringLimbs(str) == HashFold(HashLoop(<<0, 0>>, str))

hashString(str) == AbsInt32(HashLoop(<<0, 0>>, str))

\* floor(1000 * (x - Math.floor(x))) with x = Math.sin(seed) * 10000, for the
\* seeds 0 .. 1299.
SinTable ==
    <<
         0, 709, 974, 200, 975, 757, 845, 865, 582, 184, 788,  97, 270, 670,  73, 878, 966,  25, 127, 772,
       452, 556, 486, 795, 216, 482, 584, 759,  57, 661, 683, 623, 266, 118, 826, 173, 211, 618, 685, 953,
       131, 773, 784, 252,  19,  35, 883, 731, 453, 473, 251, 291, 275, 251, 109, 448, 489, 647, 726, 380,
       893, 822, 193, 557, 260, 286, 488, 800, 723, 151, 906, 546, 233, 280, 537, 183,  76, 201, 784, 873,
       113, 120, 287, 644, 903, 243, 415, 821, 983, 694, 966, 875, 339, 178, 480, 617, 877,  77, 181, 931,
       343, 257, 267, 886, 775, 647, 574, 817, 185, 426, 573, 485,  43, 180, 803, 353, 613,  20, 478, 958,
       111, 152, 131, 965, 130, 595, 908, 300, 377, 266, 940, 966, 835, 657, 248, 686, 667, 855, 477, 801,
       396, 713,  49, 546, 784, 451, 691, 440, 666, 513, 235, 498, 205,   5, 796, 880, 153, 514, 240, 197,
       252, 922, 496, 898, 327, 972, 915, 498, 267,   1, 494, 908, 591, 894, 380, 654, 522, 897, 753, 221,
       473, 485, 189, 804, 843, 211, 760, 289, 763, 179, 992,  85, 616, 434, 136, 546, 300,  58, 214,  11,
        27,  97, 184,  97, 203,  24, 580, 949, 679, 666, 185, 521, 529, 293, 994, 456, 584, 183, 754, 852,
       987, 387, 508, 534, 790,  51, 561, 585, 230, 623, 357, 158, 232, 392, 166, 866, 679, 421, 238, 906,
       451, 617, 880, 906, 637, 874, 599,  71, 521, 368, 719,  61, 122, 237, 988,  83, 919, 428, 356, 931,
       397, 187,  82, 528, 174, 101, 540, 681, 649, 531, 540, 108, 569,   1, 885, 146, 143,  43, 210, 827,
       905, 485, 502, 525, 639, 715, 852, 590, 956, 789, 456, 142, 259, 990, 900, 180, 612, 690, 376, 232,
       441, 359, 528, 325,  68, 960, 382, 646,  30,  13, 876, 717,  85, 905,  70, 332, 873, 397, 387, 250,
       445,  82, 122,  15, 347, 637, 886, 348, 847, 389, 183,  88, 956, 788, 721, 329, 474, 928, 108, 255,
       107,  32, 396,  16,  96,  41, 459, 626, 638, 555, 671, 172, 498,  99, 546, 698, 127, 151,  98, 221,
       157, 865, 906, 461,  89, 464, 900, 474,  56, 885, 350, 321,  57, 673, 929, 424, 608, 814, 364, 655,
       218, 220, 328, 232, 564, 269, 100, 481, 885, 428,  99, 827, 150,  26, 965,  69, 524, 336, 580, 679,
       806, 246, 567, 739, 435, 457, 484, 773,  25, 140, 545, 252,  81, 237, 852, 393, 255, 603, 145, 621,
       882, 812, 355, 144, 548, 902, 546,  57, 941, 410, 538, 675, 807, 474, 396, 919, 645, 425, 280, 301,
        52, 700,   6, 715, 152, 168, 424, 849, 725, 227, 162, 176, 201,  65,  56, 396, 473, 701, 349, 509,
       425, 218, 886, 701, 747, 727, 665, 818, 519,   9, 744, 678, 197, 464, 761, 642, 862, 129, 302, 897,
       167, 807, 629, 831,  29, 170, 857, 863, 193, 891, 613, 516,  43, 229, 982, 663, 567, 193, 436, 953,
       281, 282, 798, 617, 553, 553, 205, 686, 172, 504, 266, 704, 184, 576, 905,  41, 292, 441, 819, 429,
        47, 348, 767, 755, 757, 222,  26, 621, 399, 725, 165, 176, 957, 391,  79, 706, 408, 515, 983, 221,
        70, 480, 687, 971, 556, 987, 156, 665, 627, 648, 159, 596, 124,  86, 130, 826, 601, 637,  11,  91,
       185, 351, 766,  81, 358,  81, 741, 488, 462, 724, 484, 631, 109, 345, 962, 712, 472, 640, 766, 386,
       838, 142, 205, 839, 660, 879, 813, 499, 345, 818, 379, 600, 635, 542, 800, 450, 569, 419, 230, 211,
       824, 226,  41, 775, 838, 207, 653, 642, 793, 279, 176,  92, 324, 364,  13, 823, 104,  12, 283, 525,
       763, 613, 619, 521, 353, 162, 686, 505, 284, 348, 819, 586, 698, 779, 420, 372, 566, 275, 183, 267,
       475, 447, 542, 887, 908, 374, 975,  37, 213,  22, 532, 155, 345, 894,  24, 565, 390, 194, 625, 155,
       330, 707, 160, 670, 855, 281, 583,  82, 974, 631, 466, 206, 890, 842, 711, 281, 661, 873, 236, 927,
       409, 887, 361,  64, 805, 115,  39, 882, 910, 113, 793, 823, 270, 809, 455, 663,   8, 876, 237, 904,
       705, 265, 329, 588, 733, 413, 630, 203, 774, 615, 602,  35, 723, 603, 580, 928, 423, 320, 494, 635,
       283, 100, 779, 217, 155, 420, 389, 859, 525, 368, 698, 226, 884, 474, 472,  80, 974, 583, 477, 210,
       776, 175, 769, 110, 315, 628, 134,  80, 261, 114, 729, 178, 543, 587, 622, 351, 622, 132,  67, 654,
       833, 739, 177, 697, 609, 461,   4, 190, 798, 915, 319, 666, 599, 151, 496, 947, 885, 488, 988, 750,
       288, 360, 650, 836, 640, 739, 573, 182, 267, 333,  46, 588, 860, 795, 493, 650, 184, 165, 585,   1,
       696, 275, 961, 369,  64,  57, 768, 519, 687, 955, 863, 795, 329, 414, 205, 501, 988, 409, 411,  78,
       970, 182, 318, 780, 177, 156,  28, 584, 592, 518, 602, 122, 608, 429,  74,  70, 477, 440, 959, 674,
       719, 318, 437, 955, 968,  86, 298,  56,  64, 234, 277, 151, 562, 581, 309, 984, 742, 962,  98, 378,
       657,  89, 421, 649, 194, 586, 438, 115, 606, 990, 664, 493, 620, 461, 812, 932, 387, 967, 221, 482,
        60,  38, 166, 305, 168,  14, 123, 186, 464, 620, 112, 697, 778, 229, 714, 646, 279, 335, 293, 707,
        32, 600,  52, 309, 565, 134, 507, 693, 613, 727, 320, 699, 540, 880, 613, 603, 715, 517, 157, 615,
       652, 996, 494, 781, 556, 575, 152, 596, 553, 221, 587, 667, 209, 932, 437, 272, 153,   3,  90,  54,
       883, 214, 768, 915, 196, 375, 119, 307, 675, 492, 647, 243, 280, 631, 940, 476, 947, 845, 928, 954,
       865, 632, 593, 176, 451, 563, 895, 922, 914,  40, 956, 603, 891, 905, 774, 371, 232,  79, 306, 762,
       134, 518, 418, 428, 417, 213, 683, 560, 229, 330, 350, 382, 946, 108, 825, 334, 253, 325, 268, 392,
       795, 905, 665, 583,  55, 755,  77, 618, 833, 718, 428, 859,  81, 423, 620, 378, 201,  32, 628, 274,
       560, 115, 750, 146, 666, 734, 712, 822, 926, 327, 990, 594, 130, 512, 796, 544, 337, 928,  23, 999,
       586, 832, 277, 391,  51,  83, 877, 530, 273, 832, 565, 949, 849, 507,  93, 547,   8, 714, 184, 976,
       500, 566,  95, 350, 221,  95, 801, 402, 695, 616, 986, 286, 452, 549, 639, 969, 898, 966, 509, 802,
       808, 899, 223, 275, 333, 178, 938, 417, 685, 399, 621, 830, 504, 812,  15, 176, 549, 978, 893, 940,
       643, 904, 689, 450, 805, 471, 119, 577, 245,  76, 489, 507, 166, 125, 254, 875,  37, 871, 578, 640,
       531, 738, 538, 165, 317, 967, 411, 197, 551, 385, 221, 415, 667, 878, 949, 520, 732, 641, 385, 307,
       982, 178, 826, 991, 936, 986, 177, 853, 129, 711, 646, 931, 663, 113, 844, 438,  24, 227, 534, 643,
       722, 285, 759, 559,  32, 876, 935, 640, 821,  80, 570, 804, 293, 475,  95, 330, 968, 543, 919, 635,
       941, 264, 634, 350, 201, 151, 891, 652, 837, 953, 692, 238, 489, 249, 621, 391, 505, 261, 894, 171,
       213, 885, 842, 642, 549, 782, 128, 681, 401, 428, 749, 232, 277, 184, 688, 131, 615, 470, 529, 105,
       560, 419, 583, 211, 112, 629, 721, 316, 256, 945,  87, 876, 297, 800, 276, 657, 896,  46, 989, 936,
       804, 575, 668, 680, 680,  67, 196, 926, 557, 350, 636, 961, 642, 441,  28, 947, 641, 229, 752, 219,
       571, 389, 489, 687, 414, 532, 999, 281, 227, 682, 607, 216, 199, 603, 409, 614, 266, 522, 974, 162,
       364,  64, 696, 547, 593, 112, 192, 939, 368, 738, 616, 550, 787, 979, 229, 354, 757, 964, 823, 789
    >>

seededRandomFromMathRandom(seed) == (mathRandomState * 1000) \div RngModulus

\* seededRandom(seed), in thousandths.
seededRandom(seed) == SinTable[seed + 1]

RECURSIVE Gcd(_, _)
Gcd(a, b) == IF b = 0 THEN a ELSE Gcd(b, a % b)

\* Vector3.normalize(): the direction of v, as the shortest integer vector
\* along it.
Normalize(v) ==
    LET g == Gcd(Gcd(Abs(v[1]), Abs(v[2])), Abs(v[3]))
    IN  IF g = 0 THEN v ELSE <<v[1] \div g, v[2] \div g, v[3] \div g>>

PropCountInclusive(prop) == (prop.density * 20) \div 100 + 1

\* Math.floor(prop.density * 20)
PropCount(prop) == (prop.density * 20) \div 100

\* biome.terrain.layers as getTerrainHeight uses it: its test
\* `layers && layers.length > 0` sends a missing list where it sends [].
TerrainLayers(terrain) == IF "layers" \in DOMAIN terrain THEN terrain.layers ELSE <<>>

PropAboveWaterOrAt(gy, waterLevel) == gy >= waterLevel * HeightDen

\* if (gy > biome.terrain.waterLevel)
PropAboveWater(gy, waterLevel) == gy > waterLevel * HeightDen

\* One iteration of the inner loop: the entry it computes and whether it is
\* pushed.  h = 0.2 is 2 tenths; 2 * h is (4 * HeightDen) / 10 height units.
PropCandidate(b, perm, chunkX, chunkZ, chunkSize, prop, innerSeed) ==
    LET lx == ((seededRandom(innerSeed) - 500) * chunkSize) \div 100
        lz == ((seededRandom(innerSeed + 100) - 500) * chunkSize) \div 100
        gx == chunkX * chunkSize * CoordDen + lx
        gz == chunkZ * chunkSize * CoordDen + lz
        layers == TerrainLayers(b.terrain)
        gy == getTerrainHeight(gx, gz, layers, perm)
        hL == getTerrainHeight(gx - 2, gz, layers, perm)
        hR == getTerrainHeight(gx + 2, gz, layers, perm)
        hD == getTerrainHeight(gx, gz - 2, layers, perm)
        hU == getTerrainHeight(gx, gz + 2, layers, perm)
    IN  [pushed |-> PropAboveWater(gy, b.terrain.waterLevel),
         entry |-> [prop |-> prop,
                    pos |-> <<lx, gy, lz>>,
                    normal |-> Normalize(<<hL - hR, (4 * HeightDen) \div 10, hD - hU>>),
                    seed |-> innerSeed,
                    key |-> prop.id \o <<45>> \o NumberToString(chunkX) \o <<45>>
                            \o NumberToString(chunkZ) \o <<45>> \o NumberToString(innerSeed)]]

\* for (let i = 0; i < count; i++) { const innerSeed = seedValue++; ... }
\* acc.props is the array of the code; acc.candidates lists every iteration:
\* the definition index, the seeds of its two draws and whether it pushed.
RECURSIVE PropLoop(_, _, _, _, _, _, _, _, _)
PropLoop(b, perm, chunkX, chunkZ, chunkSize, propIndex, i, seedValue, acc) ==
    IF i >= PropCount(b.props[propIndex + 1]) THEN acc
    ELSE LET c == PropCandidate(b, perm, chunkX, chunkZ, chunkSize,
                                b.props[propIndex + 1], seedValue)
         IN  PropLoop(b, perm, chunkX, chunkZ, chunkSize, propIndex, i + 1, seedValue + 1,
                [props |-> IF c.pushed THEN Append(acc.props, c.entry) ELSE acc.props,
                 candidates |-> Append(acc.candidates,
                     [propIndex |-> propIndex, i |-> i,
                      seedX |-> seedValue, seedZ |-> seedValue + 100,
                      lx |-> c.entry.pos[1], gy |-> c.entry.pos[2], lz |-> c.entry.pos[3],
                      pushed |-> c.pushed])])

SeedBaseUnstrided(b, propIndex, chunkX, chunkZ) ==
    hashString(b.name) + propIndex + chunkX * 31 + chunkZ * 17

\* let seedValue = hashString(biome.name) + (propIndex * 1000) + chunkX * 31 + chunkZ * 17
SeedBase(b, propIndex, chunkX, chunkZ) ==
    hashString(b.name) + propIndex * 1000 + chunkX * 31 + chunkZ * 17

\* biome.props.forEach((prop, propIndex) => ...)
RECURSIVE PropsForEach(_, _, _, _, _, _, _)
PropsForEach(b, perm, chunkX, chunkZ, chunkSize, propIndex, acc) ==
    IF propIndex >= Len(b.props) THEN acc
    ELSE PropsForEach(b, perm, chunkX, chunkZ, chunkSize, propIndex + 1,
            PropLoop(b, perm, chunkX, chunkZ, chunkSize, propIndex, 0,
                     SeedBase(b, propIndex, chunkX, chunkZ), acc))

\* Whether the factory raises: biome.props.forEach on a biome without props
\* is a TypeError.
spawnedPropsThrows(b) == "props" \notin DOMAIN b

\* The iterations of the useMemo factory of PropManager.
spawnedPropsRun(b, perm, chunkX, chunkZ, chunkSize) ==
    PropsForEach(b, perm, chunkX, chunkZ, chunkSize, 0, [props |-> <<>>, candidates |-> <<>>])

\* The useMemo factory of PropManager.
spawnedProps(b, perm, chunkX, chunkZ, chunkSize) ==
    spawnedPropsRun(b, perm, chunkX, chunkZ, chunkSize).props

\* Names handed to hashString: every string of up to MaxNameLen of the
\* code units A, z and U+4E2D, and four names long enough to wrap, the
\* second of which hashes to the pattern 0x80000000.
NameAlphabet == {65, 122, 20013}

MaxNameLen == 3

Str_MossyArchipelago == <<77, 79, 83, 83, 89, 32, 65, 82, 67, 72, 73, 80, 69, 76, 65, 71, 79>>

Str_polygenelubricants ==
    <<112, 111, 108, 121, 103, 101, 110, 101, 108, 117, 98, 114, 105, 99, 97, 110, 116, 115>>

Str_CrimsonDunes == <<67, 114, 105, 109, 115, 111, 110, 32, 68, 117, 110, 101, 115>>

Str_FourHan == <<20013, 20013, 20013, 20013>>

LongNames == {Str_MossyArchipelago, Str_polygenelubricants, Str_CrimsonDunes, Str_FourHan}

HashNames == UNION { [1..n -> NameAlphabet] : n \in 0..MaxNameLen } \cup LongNames

MaxPropIndex == 1

MaxSeedChunk == 2

\* The seed line is evaluated in doubles; here it is where hashString(str)
\* is below 2^31.
SeedLineFits(str) == hashStringLimbs(str)[1] < 32768

\* PropManager reaches line 32 with the biome name, the definition index
\* and the chunk coordinate of hashIn.
EvalSeedLine ==
    /\ hashOut' = [done |-> TRUE,
                   hash |-> hashStringLimbs(hashIn.name),
                   fits |-> SeedLineFits(hashIn.name),
                   seedValue |-> IF SeedLineFits(hashIn.name)
                                 THEN SeedBase(hashIn, hashIn.propIndex,
                                               hashIn.chunkX, hashIn.chunkZ)
                                 ELSE 0]
    /\ UNCHANGED hashIn

IdleHash ==
    /\ hashIn = [name |-> <<>>, propIndex |-> 0, chunkX |-> 0, chunkZ |-> 0]
    /\ hashOut = [done |-> FALSE]

InitHash ==
    /\ hashIn \in [name : HashNames, propIndex : 0..MaxPropIndex,
                    chunkX : (0 - MaxSeedChunk)..MaxSeedChunk,
                    chunkZ : (0 - MaxSeedChunk)..MaxSeedChunk]
    /\ hashOut = [done |-> FALSE]

SeedLine ==
    /\ EvalSeedLine
    /\ UNCHANGED <<chunkVars, rngVars, noiseVars, heightVars, propVars, floraVars, weatherVars, appVars, audioVars, meshyPropVars, meshyVars, galleryVars>>

NextHash == SeedLine

NoRun == [done |-> FALSE]

\* A PropManager is mounted for a chunk: its useMemo factory runs.
\* A factory that raises leaves the run without a list and the component
\* unmounted.
MountPropManager(c) ==
    /\ c \notin propMounted
    /\ propPrev' = propCur
    /\ IF spawnedPropsThrows(pBiome)
       THEN /\ propCur' = [done |-> TRUE, threw |-> TRUE, chunk |-> c,
                           chunkSize |-> CHUNK_SIZE, noise |-> pNoise,
                           list |-> <<>>, candidates |-> <<>>]
            /\ propMounted' = propMounted
       ELSE /\ \E run \in { spawnedPropsRun(pBiome, pNoise, c[1], c[2], CHUNK_SIZE) } :
                 propCur' = [done |-> TRUE, threw |-> FALSE, chunk |-> c,
                             chunkSize |-> CHUNK_SIZE, noise |-> pNoise,
                             list |-> run.props, candidates |-> run.candidates]
            /\ propMounted' = propMounted \cup {c}
    /\ UNCHANGED <<pBiome, pNoise>>

\* The chunk leaves the active set: its PropManager is unmounted.
UnmountPropManager(c) ==
    /\ c \in propMounted
    /\ propMounted' = propMounted \ {c}
    /\ UNCHANGED <<pBiome, pNoise, propPrev, propCur>>

\* The parent hands a new noise2D to the PropManagers it mounts from now on.
NewPropNoise(seed) ==
    /\ propMounted = {}
    /\ pNoise # SeededTable(seed)
    /\ pNoise' = SeededTable(seed)
    /\ UNCHANGED <<pBiome, propMounted, propPrev, propCur>>

IdleProps ==
    /\ pBiome = MossyBiome
    /\ pNoise = IdentityTable
    /\ propMounted = {}
    /\ propPrev = NoRun
    /\ propCur = NoRun

InitProps ==
    /\ pBiome \in PropBiomes
    /\ pNoise \in { SeededTable(seed) : seed \in Seeds }
    /\ propMounted = {}
    /\ propPrev = NoRun
    /\ propCur = NoRun

PropEnter ==
    \E c \in ScatterChunks :
        /\ MountPropManager(c)
        /\ UNCHANGED <<chunkVars, rngVars, noiseVars, heightVars, floraVars, hashVars, weatherVars, appVars, audioVars, meshyPropVars, meshyVars, galleryVars>>

PropLeave ==
    \E c \in ScatterChunks :
        /\ UnmountPropManager(c)
        /\ UNCHANGED <<chunkVars, rngVars, noiseVars, heightVars, floraVars, hashVars, weatherVars, appVars, audioVars, meshyPropVars, meshyVars, galleryVars>>

PropNoise ==
    \E seed \in Seeds :
        /\ NewPropNoise(seed)
        /\ UNCHANGED <<chunkVars, rngVars, noiseVars, heightVars, floraVars, hashVars, weatherVars, appVars, audioVars, meshyPropVars, meshyVars, galleryVars>>

NextProps == PropEnter \/ PropLeave \/ PropNoise \/ MathRandomElsewhere

-----------------------------------------------------------------------------
(* Flora scatter (FloraSystem)                                             *)

\* The number of candidates drawn per chunk (COUNT, 1000 in the code).
FloraCount == 2

\* const size = 100
FloraSize == 100

Clamp(v, lo, hi) == IF v < lo THEN lo ELSE IF v > hi THEN hi ELSE v

\* densityVal, in tenths.
DensityVal(parameters) ==
    IF parameters.atmosphereDensity = "Thin" THEN 1
    ELSE IF parameters.atmosphereDensity = "Thick" THEN 9
    ELSE 5

\* Math.random() * size - size / 2, in tenths, for the value s / RngModulus.
FloraOffset(s) == (s * FloraSize * CoordDen) \div RngModulus - (FloraSize * CoordDen) \div 2

\* The mesh an instance goes to: 1 trees, 2 spikes, 3 bushes.  tempNorm is
\* (tempEffect + 50) / 150 and rand is s / RngModulus.
TargetMeshInclusive(tempEffect, s) ==
    IF 10 * (tempEffect + 50) <= 3 * 150 /\ 10 * s > 4 * RngModulus THEN 2
    ELSE IF 10 * (tempEffect + 50) >= 7 * 150 /\ 10 * s > 4 * RngModulus THEN 3
    ELSE 1

TargetMesh(tempEffect, s) ==
    IF 10 * (tempEffect + 50) < 3 * 150 /\ 10 * s > 4 * RngModulus THEN 2
    ELSE IF 10 * (tempEffect + 50) > 7 * 150 /\ 10 * s > 4 * RngModulus THEN 3
    ELSE 1

\* tempObject.scale after the gravity and tree modifiers, as numerators over
\* den, for varScale = 0.8 + (s / RngModulus) * 1.5.
FloraScale(gravityEffect, mesh, s) ==
    LET varScale == 8 * RngModulus + 15 * s
        wide == IF gravityEffect > 12 THEN 15 ELSE IF gravityEffect < 8 THEN 7 ELSE 10
        tall == IF gravityEffect > 12 THEN 5 ELSE IF gravityEffect < 8 THEN 20 ELSE 10
        tree == IF mesh = 1 THEN 15 ELSE 1
    IN  [x |-> varScale * wide * tree, y |-> varScale * tall * tree, z |-> varScale * wide * tree,
         den |-> 100 * RngModulus * (IF mesh = 1 THEN gravityEffect ELSE 1)]

\* tempColor: the base colour mixed from tempNorm and densityVal, the hue
\* shift (Math.random() - 0.5) * 0.1 in units of 0.1 / (2 * RngModulus), and
\* the per-mesh and density modifiers.
FloraColor(tempEffect, densityVal, mesh, s) ==
    [base |-> <<tempEffect + 50, densityVal>>,
     hueShift |-> 2 * s - RngModulus,
     darkened |-> mesh = 2,
     warmed |-> mesh = 3,
     brightened |-> densityVal > 8]

FloraCountOn(mesh, instances) ==
    Cardinality({ k \in 1..Len(instances) : instances[k].mesh = mesh })

\* if (y < terrainData.waterLevel - 1) continue;
FloraBelowWater(y, waterLevel) == y < (waterLevel - 1) * HeightDen

\* The loop of the layout effect from candidate i on, given the state s of
\* Math.random and the instances written so far; d = 0.5 is 5 tenths and
\* 2 * d is HeightDen height units.
\* acc.instances are the matrices written; acc.candidates lists every
\* iteration: its height and whether it was placed.
RECURSIVE FloraLoop(_, _, _, _)
FloraLoop(props, i, s, acc) ==
    IF i >= FloraCount
    THEN [instances |-> acc.instances, candidates |-> acc.candidates, rng |-> s]
    ELSE
        LET s1 == MathRandomNext(s)
            s2 == MathRandomNext(s1)
            s3 == MathRandomNext(s2)
            s4 == MathRandomNext(s3)
            s5 == MathRandomNext(s4)
            s6 == MathRandomNext(s5)
            rX == FloraOffset(s1)
            rZ == FloraOffset(s2)
            globalX == props.chunkX * FloraSize * CoordDen + rX
            globalY == props.chunkZ * FloraSize * CoordDen + rZ
            layers == TerrainLayers(props.terrainData)
            y  == getTerrainHeight(globalX, globalY, layers, props.noise2D)
            hL == getTerrainHeight(globalX - 5, globalY, layers, props.noise2D)
            hR == getTerrainHeight(globalX + 5, globalY, layers, props.noise2D)
            hD == getTerrainHeight(globalX, globalY - 5, layers, props.noise2D)
            hU == getTerrainHeight(globalX, globalY + 5, layers, props.noise2D)
            gravityEffect == Clamp(props.parameters.gravity, 5, 20)
            tempEffect == Clamp(props.parameters.temperature, -50, 100)
            mesh == TargetMesh(tempEffect, s3)
        IN  IF FloraBelowWater(y, props.terrainData.waterLevel)
            THEN FloraLoop(props, i + 1, s2,
                    [instances |-> acc.instances,
                     candidates |-> Append(acc.candidates,
                                           [i |-> i, y |-> y, placed |-> FALSE])])
            ELSE FloraLoop(props, i + 1, s6,
                    [instances |-> Append(acc.instances,
                        [mesh |-> mesh,
                         index |-> FloraCountOn(mesh, acc.instances),
                         position |-> <<rX, y, rZ>>,
                         scale |-> FloraScale(gravityEffect, mesh, s4),
                         normal |-> Normalize(<<hR - hL, 0 - HeightDen, hD - hU>>),
                         alignMix |-> gravityEffect - 5,
                         yaw |-> s5,
                         color |-> FloraColor(tempEffect, DensityVal(props.parameters), mesh, s6)]),
                     candidates |-> Append(acc.candidates,
                                           [i |-> i, y |-> y, placed |-> TRUE,
                                            rand |-> s3, mesh |-> mesh])])

\* The useLayoutEffect of FloraSystem.
FloraEffect(props, s) == FloraLoop(props, 0, s, [instances |-> <<>>, candidates |-> <<>>])

\* The noise2D the ChunkManager revision that mounts FloraSystem passes down.
FloraNoise(b) == SeededTable(b.terrain.seed)

\* A FloraSystem is mounted for a chunk: its layout effect runs.
MountFloraSystem(c) ==
    /\ c \notin floraMounted
    /\ \E run \in { FloraEffect([terrainData |-> fBiome.terrain, parameters |-> fBiome.parameters,
                                 noise2D |-> FloraNoise(fBiome), chunkX |-> c[1], chunkZ |-> c[2]],
                                mathRandomState) } :
        /\ floraCur' = [done |-> TRUE, chunk |-> c, noise |-> FloraNoise(fBiome),
                        list |-> run.instances, candidates |-> run.candidates]
        /\ mathRandomState' = run.rng
    /\ floraPrev' = floraCur
    /\ floraMounted' = floraMounted \cup {c}
    /\ UNCHANGED fBiome

\* The chunk leaves the active set: its FloraSystem is unmounted.
UnmountFloraSystem(c) ==
    /\ c \in floraMounted
    /\ floraMounted' = floraMounted \ {c}
    /\ UNCHANGED <<fBiome, floraPrev, floraCur, mathRandomState>>

\* A shore: heights are whole and half units around a waterLevel of 1.
ShoreBiome ==
    [name |-> <<83>>,
     props |-> <<[id |-> Str_p1, density |-> 20]>>,
     terrain |-> [layers |-> <<Layer(2, 2, 0, 3, 0)>>, waterLevel |-> 1, seed |-> 1],
     parameters |-> [temperature |-> 20, gravity |-> 10, atmosphereDensity |-> "Standard"]]

ShoreBiomes == {ShoreBiome, MossyBiome, IceBiome}

ShoreChunks == {<<0, 0>>}

InitShore ==
    /\ pBiome \in ShoreBiomes
    /\ fBiome = pBiome
    /\ pNoise = FloraNoise(pBiome)
    /\ propMounted = {}
    /\ propPrev = NoRun
    /\ propCur = NoRun
    /\ floraMounted = {}
    /\ floraPrev = NoRun
    /\ floraCur = NoRun

ShorePropEnter ==
    \E c \in ShoreChunks :
        /\ MountPropManager(c)
        /\ UNCHANGED <<chunkVars, rngVars, noiseVars, heightVars, floraVars, hashVars, weatherVars, appVars, audioVars, meshyPropVars, meshyVars, galleryVars>>

ShorePropLeave ==
    \E c \in ShoreChunks :
        /\ UnmountPropManager(c)
        /\ UNCHANGED <<chunkVars, rngVars, noiseVars, heightVars, floraVars, hashVars, weatherVars, appVars, audioVars, meshyPropVars, meshyVars, galleryVars>>

ShoreFloraEnter ==
    \E c \in ShoreChunks :
        /\ MountFloraSystem(c)
        /\ UNCHANGED <<chunkVars, noiseVars, heightVars, propVars, hashVars, weatherVars, appVars, audioVars, meshyPropVars, meshyVars, galleryVars>>

ShoreFloraLeave ==
    \E c \in ShoreChunks :
        /\ UnmountFloraSystem(c)
        /\ UNCHANGED <<chunkVars, noiseVars, heightVars, propVars, hashVars, weatherVars, appVars, audioVars, meshyPropVars, meshyVars, galleryVars>>

NextShore ==
    ShorePropEnter \/ ShorePropLeave \/ ShoreFloraEnter \/ ShoreFloraLeave
        \/ MathRandomElsewhere

IdleFlora ==
    /\ fBiome = MossyBiome
    /\ floraMounted = {}
    /\ floraPrev = NoRun
    /\ floraCur = NoRun

\* The ice biome at other temperatures: those whose tempNorm is exactly
\* 0.3 and exactly 0.7, one between 0.7 and 1 and one above the clamp.
AtTemperature(t) == [IceBiome EXCEPT !.parameters.temperature = t]

FloraBiomes ==
    ScatterBiomes \cup {AtTemperature(-5), AtTemperature(55), AtTemperature(80), AtTemperature(130)}

InitFlora ==
    /\ fBiome \in FloraBiomes
    /\ floraMounted = {}
    /\ floraPrev = NoRun
    /\ floraCur = NoRun

FloraEnter ==
    \E c \in ScatterChunks :
        /\ MountFloraSystem(c)
        /\ UNCHANGED <<chunkVars, noiseVars, heightVars, propVars, hashVars, weatherVars, appVars, audioVars, meshyPropVars, meshyVars, galleryVars>>

FloraLeave ==
    \E c \in ScatterChunks :
        /\ UnmountFloraSystem(c)
        /\ UNCHANGED <<chunkVars, noiseVars, heightVars, propVars, hashVars, weatherVars, appVars, audioVars, meshyPropVars, meshyVars, galleryVars>>

NextFlora == FloraEnter \/ FloraLeave \/ MathRandomElsewhere

-----------------------------------------------------------------------------
(* Weather (components/Weather.tsx)                                        *)
(*                                                                         *)
(* Lengths are in 1/PosDen of a world unit, time in 1/TimeDen of a second, *)
(* velocities in 1/PosDen, intensities in 1/IntensityDen.  With these      *)
(* units vx * delta * 15 is vx * delta and delta * transitionSpeed is      *)
(* 10 * delta.  The Float32 rounding of the position attribute is left     *)
(* out.  The profiles are rain and sandstorm: the wobble of the spores,    *)
(* a sine of the elapsed time, is not modelled.                            *)

PosDen == 40

TimeDen == 15

IntensityDen == 300

boxSize == 100

\* particleCount, 7500 in the code.
ParticleCount == 1

\* Frames run until the clock reaches MaxClock.
MaxClock == 4

Deltas == {1, 2}

Min(a, b) == IF a < b THEN a ELSE b

Max(a, b) == IF a > b THEN a ELSE b

RainProfile == [type |-> "rain", intensity |-> 15, speed |-> 20]

SandstormProfile == [type |-> "sandstorm", intensity |-> 300, speed |-> 50]

WeatherProfiles == {RainProfile, SandstormProfile}

\* Camera positions: the origin, a walk away and a far one.
CameraSpots ==
    {<<0, 0, 0>>, <<30 * PosDen, 2 * PosDen, -10 * PosDen>>, <<500 * PosDen, 2 * PosDen, 0>>}

\* (Math.random() - 0.5) * boxSize
ParticleStart(s) == (boxSize * PosDen * s) \div RngModulus - (boxSize * PosDen) \div 2

\* windX and windZ; speed is in tenths.
ParticleWind(params, s) ==
    IF params.type = "sandstorm"
    THEN (PosDen * params.speed * (2 * s - RngModulus)) \div (10 * RngModulus)
    ELSE (PosDen * (2 * s - RngModulus)) \div (10 * RngModulus)

\* fallSpeed for the types other than spores.
ParticleFall(params, s) ==
    0 - ((PosDen * params.speed * s) \div (10 * RngModulus)) - PosDen \div 2

\* The loop of the useMemo factory from particle i on: eight draws of
\* Math.random per particle, the last two for randomOffsets and the colour.
RECURSIVE ParticleLoop(_, _, _, _)
ParticleLoop(params, i, s, acc) ==
    IF i >= ParticleCount
    THEN [positions |-> acc.positions, velocities |-> acc.velocities, rng |-> s]
    ELSE
        LET s1 == MathRandomNext(s)
            s2 == MathRandomNext(s1)
            s3 == MathRandomNext(s2)
            s4 == MathRandomNext(s3)
            s5 == MathRandomNext(s4)
            s6 == MathRandomNext(s5)
            s7 == MathRandomNext(s6)
            s8 == MathRandomNext(s7)
        IN  ParticleLoop(params, i + 1, s8,
                [positions |-> Append(acc.positions,
                        <<ParticleStart(s1), ParticleStart(s2), ParticleStart(s3)>>),
                 velocities |-> Append(acc.velocities,
                        <<ParticleWind(params, s4), ParticleFall(params, s6),
                          ParticleWind(params, s5)>>)])

\* The useMemo factory of positions and velocities.
NewParticles(params, s) ==
    ParticleLoop(params, 0, s, [positions |-> <<>>, velocities |-> <<>>])

\* if (relativeX > half) x -= boxSize; if (relativeX < -half) x += boxSize;
WrapAxis(moved, player) ==
    LET relative == moved - player
        half == (boxSize * PosDen) \div 2
    IN  IF relative > half THEN moved - boxSize * PosDen
        ELSE IF relative < 0 - half THEN moved + boxSize * PosDen
        ELSE moved

\* The body of the particle loop of useFrame for one particle.
MoveParticle(pos, vel, delta, playerPos) ==
    <<WrapAxis(pos[1] + vel[1] * delta, playerPos[1]),
      WrapAxis(pos[2] + vel[2] * delta, playerPos[2]),
      WrapAxis(pos[3] + vel[3] * delta, playerPos[3])>>

RECURSIVE MoveParticles(_, _, _, _)
MoveParticles(positions, velocities, delta, playerPos) ==
    IF positions = <<>> THEN <<>>
    ELSE <<MoveParticle(Head(positions), Head(velocities), delta, playerPos)>>
            \o MoveParticles(Tail(positions), Tail(velocities), delta, playerPos)

\* const targetIntensity = active ? params.intensity : 0
targetIntensity == IF wActive THEN wParams.intensity ELSE 0

EasedSnap(current, target, delta) == target

\* The easing of useFrame: transitionSpeed = 0.5.
Eased(current, target, delta) ==
    IF current < target
    THEN Min(target, current + (IntensityDen * delta) \div (2 * TimeDen))
    ELSE IF current > target
         THEN Max(target, current - (IntensityDen * delta) \div (2 * TimeDen))
         ELSE current

\* The useFrame callback for a frame of length delta.
WeatherFrame(delta) ==
    /\ wClock + delta <= MaxClock
    /\ wClock' = wClock + delta
    /\ intensityValue' = Eased(intensityValue, targetIntensity, delta)
    /\ IF 100 * intensityValue' <= IntensityDen /\ ~wActive
       THEN /\ wVisible' = FALSE
            /\ wPositions' = wPositions
       ELSE /\ wVisible' = TRUE
            /\ wPositions' = MoveParticles(wPositions, wVelocities, delta, wCamera)
    /\ UNCHANGED <<wParams, wActive, wVelocities, wCamera, mathRandomState>>

\* App toggles weatherActive: active is a dependency of the useMemo, which
\* builds new positions and velocities.
SetWeatherActive ==
    /\ wActive' = ~wActive
    /\ \E made \in { NewParticles(wParams, mathRandomState) } :
        /\ wPositions' = made.positions
        /\ wVelocities' = made.velocities
        /\ mathRandomState' = made.rng
    /\ UNCHANGED <<wParams, intensityValue, wVisible, wCamera, wClock>>

\* The biome changes: params.type and params.speed are dependencies of the
\* useMemo.
SetWeatherParams(params) ==
    /\ params # wParams
    /\ wParams' = params
    /\ IF params.type # wParams.type \/ params.speed # wParams.speed
       THEN \E made \in { NewParticles(params, mathRandomState) } :
                /\ wPositions' = made.positions
                /\ wVelocities' = made.velocities
                /\ mathRandomState' = made.rng
       ELSE UNCHANGED <<wPositions, wVelocities, mathRandomState>>
    /\ UNCHANGED <<wActive, intensityValue, wVisible, wCamera, wClock>>

\* The player moves the camera between two frames.
CameraMoves(spot) ==
    /\ spot # wCamera
    /\ wCamera' = spot
    /\ UNCHANGED <<wParams, wActive, intensityValue, wVisible, wPositions, wVelocities,
                   wClock, mathRandomState>>

\* The first render: weatherActive starts false, intensityValue at 0, and the
\* useMemo has run once.
WeatherMounted(params, s) ==
    /\ wParams = params
    /\ wActive = FALSE
    /\ intensityValue = 0
    /\ wVisible = TRUE
    /\ wPositions = NewParticles(params, s).positions
    /\ wVelocities = NewParticles(params, s).velocities
    /\ mathRandomState = NewParticles(params, s).rng
    /\ wClock = 0

IdleWeather ==
    /\ wParams = RainProfile
    /\ wActive = FALSE
    /\ intensityValue = 0
    /\ wVisible = TRUE
    /\ wPositions = <<>>
    /\ wVelocities = <<>>
    /\ wCamera = <<0, 0, 0>>
    /\ wClock = 0

InitWeather ==
    /\ wCamera \in CameraSpots
    /\ \E params \in WeatherProfiles, s \in 0..(RngModulus - 1) : WeatherMounted(params, s)

WeatherTick ==
    \E delta \in Deltas :
        /\ WeatherFrame(delta)
        /\ UNCHANGED <<chunkVars, noiseVars, heightVars, propVars, floraVars, hashVars, appVars, audioVars, meshyPropVars, meshyVars, galleryVars>>

ToggleWeather ==
    /\ SetWeatherActive
    /\ UNCHANGED <<chunkVars, noiseVars, heightVars, propVars, floraVars, hashVars, appVars, audioVars, meshyPropVars, meshyVars, galleryVars>>

NewWeather ==
    \E params \in WeatherProfiles :
        /\ SetWeatherParams(params)
        /\ UNCHANGED <<chunkVars, noiseVars, heightVars, propVars, floraVars, hashVars, appVars, audioVars, meshyPropVars, meshyVars, galleryVars>>

PlayerWalks ==
    \E spot \in CameraSpots :
        /\ CameraMoves(spot)
        /\ UNCHANGED <<chunkVars, noiseVars, heightVars, propVars, floraVars, hashVars, appVars, audioVars, meshyPropVars, meshyVars, galleryVars>>

NextWeather == WeatherTick \/ ToggleWeather \/ NewWeather \/ PlayerWalks

-----------------------------------------------------------------------------
(* App (App.tsx): the auto-weather scheduler and handleRegenerate          *)
(*                                                                         *)
(* Time is left out: a pending timer may fire at any moment.  A timer is   *)
(* either the one the running effect holds in `timer` (armed), the only    *)
(* one its cleanup clears, or one scheduled from a timer callback          *)
(* (chained).  Each await of handleRegenerate is a position of the         *)
(* invocation; the service it waits for settles in a later step.  The      *)
(* change of weatherEnabled and the effect it triggers are one step.       *)

\* How many timers scheduled from callbacks may be pending at once.
MaxTimers == 2

\* How many times handleRegenerate passes its guard.
MaxRuns == 2

Step_Description == "Consulting Xenobiologist (Gemini 3 Pro)..."

Step_Data == "Simulating Terrain Physics (Gemini 3 Flash)..."

Step_Texture == "Synthesizing Nano-Textures..."

Step_Skybox == "Painting The Heavens..."

\* const nextToggle = Math.random() * 20000 + 10000, in milliseconds.
NextToggleDelay(s) == (20000 * s) \div RngModulus + 10000

\* toggleWeather: flips weatherActive and schedules the next timer.
ToggleWeatherFlips ==
    /\ weatherActive' = ~weatherActive
    /\ mathRandomState' = MathRandomNext(mathRandomState)
    /\ nextToggle' = NextToggleDelay(MathRandomNext(mathRandomState))

\* setWeatherEnabled(true): the effect runs toggleWeather and keeps the id of
\* the timer it returns.
EnableWeather ==
    /\ ~weatherEnabled
    /\ chained < MaxTimers
    /\ weatherEnabled' = TRUE
    /\ ToggleWeatherFlips
    /\ armed' = TRUE
    /\ appOp' = "enable"
    /\ UNCHANGED <<chained, isGeneratingRef, isGenerating, loadingStep, pipelines,
                   appBiome, runs, serviceCalls, lastRun>>

\* setWeatherEnabled(false): the cleanup clears `timer`, then the effect sets
\* weatherActive to false and returns.
DisableWeather ==
    /\ weatherEnabled
    /\ weatherEnabled' = FALSE
    /\ armed' = FALSE
    /\ weatherActive' = FALSE
    /\ appOp' = "disable"
    /\ UNCHANGED <<chained, nextToggle, mathRandomState, isGeneratingRef, isGenerating,
                   loadingStep, pipelines, appBiome, runs, serviceCalls, lastRun>>

\* The timer held by the effect fires.
ArmedTimerFires ==
    /\ armed
    /\ armed' = FALSE
    /\ appOp' = "timer"
    /\ IF isGeneratingRef
       THEN UNCHANGED <<weatherActive, mathRandomState, nextToggle, chained>>
       ELSE ToggleWeatherFlips /\ chained' = chained + 1
    /\ UNCHANGED <<weatherEnabled, isGeneratingRef, isGenerating, loadingStep, pipelines,
                   appBiome, runs, serviceCalls, lastRun>>

\* A timer scheduled from a timer callback fires.
ChainedTimerFires ==
    /\ chained > 0
    /\ appOp' = "timer"
    /\ IF isGeneratingRef
       THEN /\ chained' = chained - 1
            /\ UNCHANGED <<weatherActive, mathRandomState, nextToggle>>
       ELSE ToggleWeatherFlips /\ chained' = chained
    /\ UNCHANGED <<weatherEnabled, armed, isGeneratingRef, isGenerating, loadingStep,
                   pipelines, appBiome, runs, serviceCalls, lastRun>>

RegenerateBusyNever(ref) == FALSE

\* if (isGeneratingRef.current) return;
RegenerateBusy(ref) == ref

CaughtNowhere(step) == FALSE

\* The steps wrapped in their own try/catch.
Caught(step) == step \in {"texture", "skybox"}

Called(calls, service) == [calls EXCEPT ![service] = @ + 1]

NoCalls == [description |-> 0, data |-> 0, texture |-> 0, skybox |-> 0]

NoRunYet ==
    [step |-> "none", run |-> 0, description |-> "pending", data |-> "pending",
     texture |-> "pending", skybox |-> "pending"]

\* handleRegenerate up to its first await.
HandleRegenerate ==
    IF RegenerateBusy(isGeneratingRef)
    THEN /\ appOp' = "ignored"
         /\ UNCHANGED <<weatherEnabled, weatherActive, armed, chained, nextToggle,
                        mathRandomState, isGeneratingRef, isGenerating, loadingStep,
                        pipelines, appBiome, runs, serviceCalls, lastRun>>
    ELSE /\ runs < MaxRuns
         /\ runs' = runs + 1
         /\ appOp' = "started"
         /\ isGeneratingRef' = TRUE
         /\ isGenerating' = TRUE
         /\ loadingStep' = Step_Description
         /\ serviceCalls' = Called(serviceCalls, "description")
         /\ pipelines' = Append(pipelines,
                [step |-> "description", run |-> runs + 1,
                 description |-> "pending", data |-> "pending",
                 texture |-> "pending", skybox |-> "pending"])
         /\ UNCHANGED <<weatherEnabled, weatherActive, armed, chained, nextToggle,
                        mathRandomState, appBiome, lastRun>>

Without(seq, i) == SubSeq(seq, 1, i - 1) \o SubSeq(seq, i + 1, Len(seq))

\* catch and finally, or finally alone after setBiome.
Finally(i, p) ==
    /\ isGenerating' = FALSE
    /\ isGeneratingRef' = FALSE
    /\ loadingStep' = ""
    /\ pipelines' = Without(pipelines, i)
    /\ lastRun' = p

\* newBiomeData after the texture and skybox steps.
NewBiomeData(p) ==
    [version |-> p.run,
     textureUrl |-> p.texture = "ok",
     skyboxUrl |-> p.skybox = "ok"]

\* The continuation of invocation i after the step it awaits settled with
\* `outcome`: "ok", "empty" (a falsy URL) or "failed".
Continue(i, outcome) ==
    LET p == pipelines[i]
        q == [p EXCEPT ![p.step] = outcome]
    IN  IF outcome = "failed" /\ ~Caught(p.step)
        THEN /\ Finally(i, q)
             /\ UNCHANGED <<appBiome, serviceCalls>>
        ELSE IF p.step = "description"
        THEN /\ loadingStep' = Step_Data
             /\ serviceCalls' = Called(serviceCalls, "data")
             /\ pipelines' = [pipelines EXCEPT ![i] = [q EXCEPT !.step = "data"]]
             /\ UNCHANGED <<isGenerating, isGeneratingRef, appBiome, lastRun>>
        ELSE IF p.step = "data"
        THEN /\ loadingStep' = Step_Texture
             /\ serviceCalls' = Called(serviceCalls, "texture")
             /\ pipelines' = [pipelines EXCEPT ![i] = [q EXCEPT !.step = "texture"]]
             /\ UNCHANGED <<isGenerating, isGeneratingRef, appBiome, lastRun>>
        ELSE IF p.step = "texture"
        THEN /\ loadingStep' = Step_Skybox
             /\ serviceCalls' = Called(serviceCalls, "skybox")
             /\ pipelines' = [pipelines EXCEPT ![i] = [q EXCEPT !.step = "skybox"]]
             /\ UNCHANGED <<isGenerating, isGeneratingRef, appBiome, lastRun>>
        ELSE /\ appBiome' = NewBiomeData(q)
             /\ Finally(i, q)
             /\ UNCHANGED serviceCalls

Outcomes(step) ==
    IF step \in {"texture", "skybox"} THEN {"ok", "empty", "failed"} ELSE {"ok", "failed"}

\* The promise an invocation awaits settles.
ServiceSettles ==
    \E i \in 1..Len(pipelines) :
        \E outcome \in Outcomes(pipelines[i].step) :
            /\ Continue(i, outcome)
            /\ appOp' = "settled"
            /\ UNCHANGED <<weatherEnabled, weatherActive, armed, chained, nextToggle,
                           mathRandomState, runs>>

\* The state after the first render and its effect: weatherEnabled starts
\* true, so the effect has toggled once and holds a timer.
AppMounted(s) ==
    /\ weatherEnabled = TRUE
    /\ weatherActive = TRUE
    /\ armed = TRUE
    /\ chained = 0
    /\ mathRandomState = MathRandomNext(s)
    /\ nextToggle = NextToggleDelay(MathRandomNext(s))
    /\ isGeneratingRef = FALSE
    /\ isGenerating = FALSE
    /\ loadingStep = ""
    /\ pipelines = <<>>
    /\ appBiome = [version |-> 0, textureUrl |-> FALSE, skyboxUrl |-> FALSE]
    /\ runs = 0
    /\ serviceCalls = NoCalls
    /\ lastRun = NoRunYet
    /\ appOp = "mount"

IdleApp ==
    /\ weatherEnabled = TRUE
    /\ weatherActive = FALSE
    /\ armed = FALSE
    /\ chained = 0
    /\ nextToggle = 0
    /\ isGeneratingRef = FALSE
    /\ isGenerating = FALSE
    /\ loadingStep = ""
    /\ pipelines = <<>>
    /\ appBiome = [version |-> 0, textureUrl |-> FALSE, skyboxUrl |-> FALSE]
    /\ runs = 0
    /\ serviceCalls = NoCalls
    /\ lastRun = NoRunYet
    /\ appOp = "mount"

InitApp == \E s \in 0..(RngModulus - 1) : AppMounted(s)

WeatherOn ==
    /\ EnableWeather
    /\ UNCHANGED <<chunkVars, noiseVars, heightVars, propVars, floraVars, hashVars, weatherVars, audioVars, meshyPropVars, meshyVars, galleryVars>>

WeatherOff ==
    /\ DisableWeather
    /\ UNCHANGED <<chunkVars, noiseVars, heightVars, propVars, floraVars, hashVars, weatherVars, audioVars, meshyPropVars, meshyVars, galleryVars>>

FirstTimer ==
    /\ ArmedTimerFires
    /\ UNCHANGED <<chunkVars, noiseVars, heightVars, propVars, floraVars, hashVars, weatherVars, audioVars, meshyPropVars, meshyVars, galleryVars>>

LaterTimer ==
    /\ ChainedTimerFires
    /\ UNCHANGED <<chunkVars, noiseVars, heightVars, propVars, floraVars, hashVars, weatherVars, audioVars, meshyPropVars, meshyVars, galleryVars>>

PressRegenerate ==
    /\ HandleRegenerate
    /\ UNCHANGED <<chunkVars, noiseVars, heightVars, propVars, floraVars, hashVars, weatherVars, audioVars, meshyPropVars, meshyVars, galleryVars>>

Settles ==
    /\ ServiceSettles
    /\ UNCHANGED <<chunkVars, noiseVars, heightVars, propVars, floraVars, hashVars, weatherVars, audioVars, meshyPropVars, meshyVars, galleryVars>>

NextApp == WeatherOn \/ WeatherOff \/ FirstTimer \/ LaterTimer \/ PressRegenerate \/ Settles

-----------------------------------------------------------------------------
(* getAlienAmbienceV13 (services/elevenLabsV13.ts)                         *)
(*                                                                         *)
(* Each call is a process; its positions are its awaits.  A worker is the  *)
(* promise returned by _internalV13AudioWorker; how it polls is left out,  *)
(* it settles with a result or an error.  An entry of activeV13Promises is *)
(* the number of the worker it holds, 0 for a missing key.                 *)

AudioBiomes == {"b1", "b2"}

MaxAudioCalls == 2

MaxWorkers == 2

AudioCallIds == 1..MaxAudioCalls

JoinableNever(biomeId, active) == FALSE

\* if (biomeId in activeV13Promises)
Joinable(biomeId, active) == active[biomeId] # 0

\* delete activeV13Promises[biomeId]
DeleteActive(active, biomeId) == [active EXCEPT ![biomeId] = 0]

\* getAlienAmbienceV13(biomeId, prompt) up to the await of getFromDB.
AudioCallStarts(c, biomeId) ==
    /\ audioCalls[c].pc \in {"idle", "returned", "threw"}
    /\ audioCalls' = [audioCalls EXCEPT ![c] = [biome |-> biomeId, pc |-> "reading", task |-> 0]]
    /\ UNCHANGED <<activeV13Promises, audioWorkers, audioDB>>

\* getFromDB settles: with the cached value, with null or with an error.  The
\* call then runs on to its next await: a cache hit returns, otherwise it
\* joins the generation in progress or starts a worker and records it.
AudioDbRead(c, readFails) ==
    LET biomeId == audioCalls[c].biome
    IN  /\ audioCalls[c].pc = "reading"
        /\ IF ~readFails /\ biomeId \in audioDB
           THEN /\ audioCalls' = [audioCalls EXCEPT ![c].pc = "returned"]
                /\ UNCHANGED <<activeV13Promises, audioWorkers>>
           ELSE IF Joinable(biomeId, activeV13Promises)
           THEN /\ audioCalls' =
                    [audioCalls EXCEPT ![c].pc = "joined",
                                       ![c].task = activeV13Promises[biomeId]]
                /\ UNCHANGED <<activeV13Promises, audioWorkers>>
           ELSE /\ Len(audioWorkers) < MaxWorkers
                /\ audioWorkers' = Append(audioWorkers, [biome |-> biomeId, status |-> "pending"])
                /\ activeV13Promises' =
                    [activeV13Promises EXCEPT ![biomeId] = Len(audioWorkers) + 1]
                /\ audioCalls' =
                    [audioCalls EXCEPT ![c].pc = "awaitTask",
                                       ![c].task = Len(audioWorkers) + 1]
        /\ UNCHANGED audioDB

\* The promise of worker w settles.
AudioWorkerSettles(w, outcome) ==
    /\ audioWorkers[w].status = "pending"
    /\ audioWorkers' = [audioWorkers EXCEPT ![w].status = outcome]
    /\ UNCHANGED <<audioCalls, activeV13Promises, audioDB>>

\* The call that started the worker resumes after `await task`.
AudioOwnerResumes(c) ==
    LET biomeId == audioCalls[c].biome
    IN  /\ audioCalls[c].pc = "awaitTask"
        /\ audioWorkers[audioCalls[c].task].status # "pending"
        /\ IF audioWorkers[audioCalls[c].task].status = "ok"
           THEN /\ audioCalls' = [audioCalls EXCEPT ![c].pc = "saving"]
                /\ UNCHANGED activeV13Promises
           ELSE /\ activeV13Promises' = DeleteActive(activeV13Promises, biomeId)
                /\ audioCalls' = [audioCalls EXCEPT ![c].pc = "threw"]
        /\ UNCHANGED <<audioWorkers, audioDB>>

\* saveToDB settles for the call that started the worker.
AudioSaveSettles(c, saved) ==
    LET biomeId == audioCalls[c].biome
    IN  /\ audioCalls[c].pc = "saving"
        /\ activeV13Promises' = DeleteActive(activeV13Promises, biomeId)
        /\ IF saved
           THEN /\ audioDB' = audioDB \cup {biomeId}
                /\ audioCalls' = [audioCalls EXCEPT ![c].pc = "returned"]
           ELSE /\ audioDB' = audioDB
                /\ audioCalls' = [audioCalls EXCEPT ![c].pc = "threw"]
        /\ UNCHANGED audioWorkers

\* A call that joined resumes after `await activeV13Promises[biomeId]`.
AudioJoinerResumes(c) ==
    /\ audioCalls[c].pc = "joined"
    /\ audioWorkers[audioCalls[c].task].status # "pending"
    /\ audioCalls' =
        [audioCalls EXCEPT ![c].pc =
            IF audioWorkers[audioCalls[c].task].status = "ok" THEN "returned" ELSE "threw"]
    /\ UNCHANGED <<activeV13Promises, audioWorkers, audioDB>>

IdleAudio ==
    /\ audioCalls = [c \in AudioCallIds |-> [biome |-> "b1", pc |-> "idle", task |-> 0]]
    /\ activeV13Promises = [b \in AudioBiomes |-> 0]
    /\ audioWorkers = <<>>
    /\ audioDB = {}

InitAudio == IdleAudio

AudioCall ==
    \E c \in AudioCallIds, biomeId \in AudioBiomes :
        /\ AudioCallStarts(c, biomeId)
        /\ UNCHANGED <<chunkVars, rngVars, noiseVars, heightVars, propVars, floraVars, hashVars, weatherVars, appVars, meshyPropVars, meshyVars, galleryVars>>

AudioRead ==
    \E c \in AudioCallIds, readFails \in BOOLEAN :
        /\ AudioDbRead(c, readFails)
        /\ UNCHANGED <<chunkVars, rngVars, noiseVars, heightVars, propVars, floraVars, hashVars, weatherVars, appVars, meshyPropVars, meshyVars, galleryVars>>

AudioSettle ==
    \E w \in 1..Len(audioWorkers), outcome \in {"ok", "failed"} :
        /\ AudioWorkerSettles(w, outcome)
        /\ UNCHANGED <<chunkVars, rngVars, noiseVars, heightVars, propVars, floraVars, hashVars, weatherVars, appVars, meshyPropVars, meshyVars, galleryVars>>

AudioOwner ==
    \E c \in AudioCallIds :
        /\ AudioOwnerResumes(c)
        /\ UNCHANGED <<chunkVars, rngVars, noiseVars, heightVars, propVars, floraVars, hashVars, weatherVars, appVars, meshyPropVars, meshyVars, galleryVars>>

AudioSave ==
    \E c \in AudioCallIds, saved \in BOOLEAN :
        /\ AudioSaveSettles(c, saved)
        /\ UNCHANGED <<chunkVars, rngVars, noiseVars, heightVars, propVars, floraVars, hashVars, weatherVars, appVars, meshyPropVars, meshyVars, galleryVars>>

AudioJoiner ==
    \E c \in AudioCallIds :
        /\ AudioJoinerResumes(c)
        /\ UNCHANGED <<chunkVars, rngVars, noiseVars, heightVars, propVars, floraVars, hashVars, weatherVars, appVars, meshyPropVars, meshyVars, galleryVars>>

NextAudio == AudioCall \/ AudioRead \/ AudioSettle \/ AudioOwner \/ AudioSave \/ AudioJoiner

-----------------------------------------------------------------------------
(* MeshyProp and its modelCache (components/MeshyProp.tsx)                 *)
(*                                                                         *)
(* An instance is a slot: mounting it runs the useState initialisers and   *)
(* the effect in one step.  A generation started by an instance goes on    *)
(* after the instance is unmounted; a slot is mounted again only once its  *)
(* generation has settled.                                                 *)

MeshyPrompts == {"crystal spire", "glow fungus"}

MaxInstances == 2

\* How many times generate3DModel may be started for one prompt.
MaxStarts == 3

MeshySlots == 1..MaxInstances

Unmounted ==
    [mounted |-> FALSE, prompt |-> "crystal spire", glbUrl |-> FALSE, isGenerating |-> FALSE,
     generationStarted |-> FALSE, pending |-> FALSE, error |-> FALSE]

\* if (glbUrl || isGenerating || generationStarted.current) return;
EffectReturns(inst) == inst.glbUrl \/ inst.isGenerating \/ inst.generationStarted

\* The body of the effect of instance i, `inst` being its state at the
\* render the effect belongs to.
MeshyEffect(i, inst) ==
    IF EffectReturns(inst)
    THEN /\ meshyProps' = [meshyProps EXCEPT ![i] = inst]
         /\ UNCHANGED generateStarts
    ELSE /\ generateStarts[inst.prompt] < MaxStarts
         /\ generateStarts' = [generateStarts EXCEPT ![inst.prompt] = @ + 1]
         /\ meshyProps' =
                [meshyProps EXCEPT ![i] =
                    [inst EXCEPT !.generationStarted = TRUE, !.isGenerating = TRUE,
                                 !.pending = TRUE]]

\* A MeshyProp with prop.prompt = prompt is mounted: useState reads
\* modelCache[prop.prompt], then the effect runs.
MountMeshyProp(i, prompt) ==
    /\ ~meshyProps[i].mounted
    /\ ~meshyProps[i].pending
    /\ MeshyEffect(i, [Unmounted EXCEPT !.mounted = TRUE, !.prompt = prompt,
                                        !.glbUrl = prompt \in modelCache])
    /\ UNCHANGED modelCache

UnmountMeshyProp(i) ==
    /\ meshyProps[i].mounted
    /\ meshyProps' = [meshyProps EXCEPT ![i].mounted = FALSE]
    /\ UNCHANGED <<modelCache, generateStarts>>

\* The promise of generate3DModel settles for instance i: then or catch, and
\* the effect running again because isGenerating and glbUrl changed.
GenerationSettles(i, resolved) ==
    /\ meshyProps[i].pending
    /\ IF resolved
       THEN /\ modelCache' = modelCache \cup {meshyProps[i].prompt}
            /\ MeshyEffect(i, [meshyProps[i] EXCEPT !.pending = FALSE, !.glbUrl = TRUE,
                                                    !.isGenerating = FALSE])
       ELSE /\ modelCache' = modelCache
            /\ MeshyEffect(i, [meshyProps[i] EXCEPT !.pending = FALSE, !.error = TRUE,
                                                    !.isGenerating = FALSE])

IdleMeshyProp ==
    /\ meshyProps = [i \in MeshySlots |-> Unmounted]
    /\ modelCache = {}
    /\ generateStarts = [p \in MeshyPrompts |-> 0]

InitMeshyProp == IdleMeshyProp

PropAppears ==
    \E i \in MeshySlots, prompt \in MeshyPrompts :
        /\ MountMeshyProp(i, prompt)
        /\ UNCHANGED <<chunkVars, rngVars, noiseVars, heightVars, propVars, floraVars, hashVars, weatherVars, appVars, audioVars, meshyVars, galleryVars>>

PropDisappears ==
    \E i \in MeshySlots :
        /\ UnmountMeshyProp(i)
        /\ UNCHANGED <<chunkVars, rngVars, noiseVars, heightVars, propVars, floraVars, hashVars, weatherVars, appVars, audioVars, meshyVars, galleryVars>>

ModelSettles ==
    \E i \in MeshySlots, resolved \in BOOLEAN :
        /\ GenerationSettles(i, resolved)
        /\ UNCHANGED <<chunkVars, rngVars, noiseVars, heightVars, propVars, floraVars, hashVars, weatherVars, appVars, audioVars, meshyVars, galleryVars>>

NextMeshyProp == PropAppears \/ PropDisappears \/ ModelSettles

-----------------------------------------------------------------------------
(* generate3DModel (services/meshy.ts)                                     *)
(*                                                                         *)
(* One call of generate3DModel: its positions are the awaits of            *)
(* createTextTo3DTask, createTextTo3DRefineTask and pollTask.  mPosts,     *)
(* mWaits and mPolls count what the create call or the pollTask call that  *)
(* runs, or ran last, has sent and waited.  A fetch that rejects is the    *)
(* response with status 0.                                                 *)

maxRetries == 5

InitialRetryDelay == 2000

maxAttempts == 120

TaskIds == {"task-a", "task-b"}

HttpStatuses == {0, 200, 404, 429, 500}

\* response.ok
ResponseOk(status) == status \in 200..299

PostResponses == { [status |-> s, result |-> id] : s \in HttpStatuses, id \in TaskIds }

PollResponses ==
    { [status |-> s, task |-> t, glb |-> g] :
        s \in {200, 500}, t \in {"PENDING", "IN_PROGRESS", "SUCCEEDED", "FAILED"}, g \in BOOLEAN }

NextRetryDelayFixed(delay) == delay

\* retryDelay *= 2
NextRetryDelay(delay) == delay * 2

MoreAttemptsInclusive(n) == n <= maxAttempts

\* attempt < maxAttempts
MoreAttempts(n) == n < maxAttempts

Throws(message) ==
    /\ mPc' = "threw"
    /\ mResult' = message

\* createTextTo3DTask or createTextTo3DRefineTask up to its first fetch.
CreateTask(stage) ==
    /\ mStage' = stage
    /\ IF ~mKey
       THEN /\ Throws("Missing Meshy API Key")
            /\ UNCHANGED <<mI, retryDelay, mPosts, mWaits>>
       ELSE /\ mI' = 0
            /\ retryDelay' = InitialRetryDelay
            /\ mPosts' = 1
            /\ mWaits' = <<>>
            /\ mPc' = "posting"
            /\ UNCHANGED mResult

\* pollTask up to its first getTaskStatus.
PollTask(taskId) ==
    /\ mPolled' = taskId
    /\ attempt' = 0
    /\ mPolls' = 1
    /\ mPc' = "polling"
    /\ UNCHANGED mResult

\* generate3DModel(prompt)
Generate3DModel ==
    /\ mPc = "idle"
    /\ CreateTask("preview")
    /\ UNCHANGED <<mKey, mResponse, attempt, mPolls, mPolled, previewTaskId, refineTaskId>>

\* The fetch of a create call settles with `response`.
PostSettles(response) ==
    /\ mPc = "posting"
    /\ mResponse' = response
    /\ IF response.status = 0
       THEN /\ Throws("fetch failed")
            /\ UNCHANGED <<mStage, mI, retryDelay, mPosts, mWaits, attempt, mPolls, mPolled,
                           previewTaskId, refineTaskId>>
       ELSE IF response.status = 429
       THEN /\ mPc' = "backoff"
            /\ mWaits' = Append(mWaits, retryDelay)
            /\ UNCHANGED <<mStage, mI, retryDelay, mPosts, mResult, attempt, mPolls, mPolled,
                           previewTaskId, refineTaskId>>
       ELSE IF ~ResponseOk(response.status)
       THEN /\ Throws("Meshy API Error")
            /\ UNCHANGED <<mStage, mI, retryDelay, mPosts, mWaits, attempt, mPolls, mPolled,
                           previewTaskId, refineTaskId>>
       ELSE /\ IF mStage = "preview"
               THEN previewTaskId' = response.result /\ UNCHANGED refineTaskId
               ELSE refineTaskId' = response.result /\ UNCHANGED previewTaskId
            /\ PollTask(response.result)
            /\ UNCHANGED <<mStage, mI, retryDelay, mPosts, mWaits>>
    /\ UNCHANGED mKey

\* The wait after a 429 is over: the delay doubles and the loop goes on.
BackoffElapses ==
    /\ mPc = "backoff"
    /\ retryDelay' = NextRetryDelay(retryDelay)
    /\ mI' = mI + 1
    /\ IF mI + 1 < maxRetries
       THEN /\ mPosts' = mPosts + 1
            /\ mPc' = "posting"
            /\ UNCHANGED mResult
       ELSE /\ Throws("Max retries exceeded")
            /\ UNCHANGED mPosts
    /\ UNCHANGED <<mKey, mStage, mWaits, mResponse, attempt, mPolls, mPolled,
                   previewTaskId, refineTaskId>>

\* getTaskStatus settles with `response` and pollTask looks at it.
PollSettles(response) ==
    /\ mPc = "polling"
    /\ mResponse' = response
    /\ IF ~ResponseOk(response.status)
       THEN /\ Throws("Meshy Status Error")
            /\ UNCHANGED <<mStage, mI, retryDelay, mPosts, mWaits>>
       ELSE IF response.task = "SUCCEEDED"
       THEN IF ~response.glb
            THEN /\ Throws("Succeeded but no GLB URL found")
                 /\ UNCHANGED <<mStage, mI, retryDelay, mPosts, mWaits>>
            ELSE IF mStage = "preview"
            THEN CreateTask("refine")
            ELSE /\ mPc' = "returned"
                 /\ mResult' = "glb"
                 /\ UNCHANGED <<mStage, mI, retryDelay, mPosts, mWaits>>
       ELSE IF response.task = "FAILED"
       THEN /\ Throws("Generation failed on Meshy")
            /\ UNCHANGED <<mStage, mI, retryDelay, mPosts, mWaits>>
       ELSE /\ mPc' = "pollWait"
            /\ UNCHANGED <<mStage, mI, retryDelay, mPosts, mWaits, mResult>>
    /\ UNCHANGED <<mKey, attempt, mPolls, mPolled, previewTaskId, refineTaskId>>

\* pollInterval is over: the next attempt, or the timeout.
PollWaitElapses ==
    /\ mPc = "pollWait"
    /\ attempt' = attempt + 1
    /\ IF MoreAttempts(attempt + 1)
       THEN /\ mPolls' = mPolls + 1
            /\ mPc' = "polling"
            /\ UNCHANGED mResult
       ELSE /\ Throws("Timed out waiting for Meshy task.")
            /\ UNCHANGED mPolls
    /\ UNCHANGED <<mKey, mStage, mI, retryDelay, mPosts, mWaits, mResponse, mPolled,
                   previewTaskId, refineTaskId>>

NoResponse == [status |-> 0, result |-> "task-a"]

MeshyAtRest(key) ==
    /\ mKey = key
    /\ mPc = "idle"
    /\ mStage = "preview"
    /\ mI = 0
    /\ retryDelay = InitialRetryDelay
    /\ mPosts = 0
    /\ mWaits = <<>>
    /\ mResponse = NoResponse
    /\ attempt = 0
    /\ mPolls = 0
    /\ mPolled = "none"
    /\ previewTaskId = "none"
    /\ refineTaskId = "none"
    /\ mResult = "none"

IdleMeshy == MeshyAtRest(TRUE)

InitMeshy == \E key \in BOOLEAN : MeshyAtRest(key)

MeshyGenerate ==
    /\ Generate3DModel
    /\ UNCHANGED <<chunkVars, rngVars, noiseVars, heightVars, propVars, floraVars, hashVars, weatherVars, appVars, audioVars, meshyPropVars, galleryVars>>

MeshyPosted ==
    \E response \in PostResponses :
        /\ PostSettles(response)
        /\ UNCHANGED <<chunkVars, rngVars, noiseVars, heightVars, propVars, floraVars, hashVars, weatherVars, appVars, audioVars, meshyPropVars, galleryVars>>

MeshyBackoff ==
    /\ BackoffElapses
    /\ UNCHANGED <<chunkVars, rngVars, noiseVars, heightVars, propVars, floraVars, hashVars, weatherVars, appVars, audioVars, meshyPropVars, galleryVars>>

MeshyPolled ==
    \E response \in PollResponses :
        /\ PollSettles(response)
        /\ UNCHANGED <<chunkVars, rngVars, noiseVars, heightVars, propVars, floraVars, hashVars, weatherVars, appVars, audioVars, meshyPropVars, galleryVars>>

MeshyPollWait ==
    /\ PollWaitElapses
    /\ UNCHANGED <<chunkVars, rngVars, noiseVars, heightVars, propVars, floraVars, hashVars, weatherVars, appVars, audioVars, meshyPropVars, galleryVars>>

NextMeshy == MeshyGenerate \/ MeshyPosted \/ MeshyBackoff \/ MeshyPolled \/ MeshyPollWait

-----------------------------------------------------------------------------
(* The gallery (services/ThreeDStorage.ts)                                 *)
(*                                                                         *)
(* Numbers are in thousandths.  Of a biome the name, the terrain (layers,  *)
(* waterLevel, seed) and the props are modelled: what the chunk manager    *)
(* and the prop manager read.  A JSON text is the record [text |-> v] of   *)
(* the value it encodes: the values here are finite numbers, strings,      *)
(* arrays and plain objects, which JSON.parse gives back as they were.     *)

MaxDocs == 2

\* JSON.stringify
JsonStringify(v) == [text |-> v]

\* typeof v === 'string'
IsJsonText(v) == DOMAIN v = {"text"}

\* JSON.parse
JsonParse(s) == s.text

\* Number(v) || fallback, for a v that is a number
NumberOr(v, fallback) == IF v = 0 THEN fallback ELSE v

\* One element of safeLayers.
SafeLayer(l) ==
    [name |-> l.name,
     noiseScale |-> NumberOr(l.noiseScale, 10),
     heightScale |-> NumberOr(l.heightScale, 1000),
     roughness |-> NumberOr(l.roughness, 500),
     offsetX |-> NumberOr(l.offsetX, 0),
     offsetZ |-> NumberOr(l.offsetZ, 0)]

RECURSIVE SafeLayers(_)
SafeLayers(layers) ==
    IF layers = <<>> THEN <<>> ELSE <<SafeLayer(Head(layers))>> \o SafeLayers(Tail(layers))

\* finalPayload: the fields of cleanBiome.
CleanBiome(b) ==
    [name |-> b.name,
     terrain |-> JsonStringify(
        [waterLevel |-> NumberOr(b.terrain.waterLevel, 0),
         layers |-> JsonStringify(SafeLayers(b.terrain.layers)),
         seed |-> NumberOr(b.terrain.seed, 0)])]

\* What loadBiomeById and the map callback of fetchGalleryBiomes make of the
\* data of a document.
ParsedBiome(data, id) ==
    LET outer == IF IsJsonText(data.terrain) THEN JsonParse(data.terrain) ELSE data.terrain
        parsedTerrain ==
            IF IsJsonText(outer.layers)
            THEN [outer EXCEPT !.layers = JsonParse(outer.layers)]
            ELSE outer
    IN  [name |-> data.name, terrain |-> parsedTerrain, firestoreId |-> id]

RECURSIVE ParsedAll(_, _)
ParsedAll(docs, i) ==
    IF i > Len(docs) THEN <<>>
    ELSE ParsedAll(docs, i + 1) \o <<ParsedBiome(docs[i], i)>>

\* saveBiomeToGallery(biome, assets): addDoc gives the document the next id.
saveBiomeToGallery ==
    /\ Len(galleryDocs) < MaxDocs
    /\ galleryDocs' = Append(galleryDocs, CleanBiome(savedBiome))
    /\ galleryOp' = [op |-> "save", id |-> Len(galleryDocs) + 1]
    /\ UNCHANGED <<savedBiome, loadedBiomes>>

\* loadBiomeById(id) for a document that exists.
loadBiomeById(id) ==
    /\ id \in 1..Len(galleryDocs)
    /\ loadedBiomes' = <<ParsedBiome(galleryDocs[id], id)>>
    /\ galleryOp' = [op |-> "load", id |-> id]
    /\ UNCHANGED <<savedBiome, galleryDocs>>

\* fetchGalleryBiomes(): the documents, the newest first.
fetchGalleryBiomes ==
    /\ loadedBiomes' = ParsedAll(galleryDocs, 1)
    /\ galleryOp' = [op |-> "fetch", id |-> 0]
    /\ UNCHANGED <<savedBiome, galleryDocs>>

StoneProp == [name |-> "stone", prompt |-> "a mossy stone", density |-> 20, baseScale |-> 1000]

GalleryLayers ==
    { [name |-> "base", noiseScale |-> ns, heightScale |-> hs, roughness |-> r,
       offsetX |-> ox, offsetZ |-> 0] :
        ns \in {0, 20}, hs \in {0, 1000, 12000}, r \in {0, 500}, ox \in {0, 100000} }

GalleryBiomes ==
    { [name |-> "Mossy Archipelago",
       terrain |-> [layers |-> ls, waterLevel |-> w, seed |-> s],
       props |-> ps] :
        ls \in {<<>>} \cup { <<l>> : l \in GalleryLayers },
        w \in {0, -3000}, s \in {0, 7000}, ps \in {<<>>, <<StoneProp>>} }

IdleGallery ==
    /\ savedBiome =
        [name |-> "Mossy Archipelago",
         terrain |-> [layers |-> <<>>, waterLevel |-> 0, seed |-> 0], props |-> <<>>]
    /\ galleryDocs = <<>>
    /\ loadedBiomes = <<>>
    /\ galleryOp = [op |-> "none", id |-> 0]

InitGallery ==
    /\ savedBiome \in GalleryBiomes
    /\ galleryDocs = <<>>
    /\ loadedBiomes = <<>>
    /\ galleryOp = [op |-> "none", id |-> 0]

GallerySave ==
    /\ saveBiomeToGallery
    /\ UNCHANGED <<chunkVars, rngVars, noiseVars, heightVars, propVars, floraVars, hashVars, weatherVars, appVars, audioVars, meshyPropVars, meshyVars>>

GalleryLoad ==
    \E id \in 1..MaxDocs :
        /\ loadBiomeById(id)
        /\ UNCHANGED <<chunkVars, rngVars, noiseVars, heightVars, propVars, floraVars, hashVars, weatherVars, appVars, audioVars, meshyPropVars, meshyVars>>

GalleryFetch ==
    /\ fetchGalleryBiomes
    /\ UNCHANGED <<chunkVars, rngVars, noiseVars, heightVars, propVars, floraVars, hashVars, weatherVars, appVars, audioVars, meshyPropVars, meshyVars>>

NextGallery == GallerySave \/ GalleryLoad \/ GalleryFetch

-----------------------------------------------------------------------------
(* Specifications                                                          *)
(*                                                                         *)
(* One per component; the variables of the other components stay at rest.  *)

StartChunks ==
    InitChunks /\ IdleRng /\ IdleNoise /\ IdleHeight /\ IdleProps /\ IdleFlora /\ IdleHash /\ IdleWeather /\ IdleApp /\ IdleAudio /\ IdleMeshyProp /\ IdleMeshy /\ IdleGallery

SpecChunks == StartChunks /\ [][NextChunks]_vars

StartNoise ==
    InitNoise /\ InitRng /\ InitChunks /\ IdleHeight /\ IdleProps /\ IdleFlora /\ IdleHash /\ IdleWeather /\ IdleApp /\ IdleAudio /\ IdleMeshyProp /\ IdleMeshy /\ IdleGallery

SpecNoise == StartNoise /\ [][NextNoise]_vars

StartHeight ==
    InitHeight /\ InitChunks /\ IdleRng /\ IdleNoise /\ IdleProps /\ IdleFlora /\ IdleHash /\ IdleWeather /\ IdleApp /\ IdleAudio /\ IdleMeshyProp /\ IdleMeshy /\ IdleGallery

SpecHeight == StartHeight /\ [][NextHeight]_vars

StartProps ==
    InitProps /\ IdleRng /\ InitChunks /\ IdleNoise /\ IdleHeight /\ IdleFlora /\ IdleHash /\ IdleWeather /\ IdleApp /\ IdleAudio /\ IdleMeshyProp /\ IdleMeshy /\ IdleGallery

SpecProps == StartProps /\ [][NextProps]_vars

StartFlora ==
    InitFlora /\ IdleRng /\ InitChunks /\ IdleNoise /\ IdleHeight /\ IdleProps /\ IdleHash /\ IdleWeather /\ IdleApp /\ IdleAudio /\ IdleMeshyProp /\ IdleMeshy /\ IdleGallery

SpecFlora == StartFlora /\ [][NextFlora]_vars

StartHash ==
    InitHash /\ IdleRng /\ InitChunks /\ IdleNoise /\ IdleHeight /\ IdleProps /\ IdleFlora /\ IdleWeather /\ IdleApp /\ IdleAudio /\ IdleMeshyProp /\ IdleMeshy /\ IdleGallery

SpecHash == StartHash /\ [][NextHash]_vars

StartWeather ==
    InitWeather /\ InitChunks /\ IdleNoise /\ IdleHeight /\ IdleProps /\ IdleFlora /\ IdleHash /\ IdleApp /\ IdleAudio /\ IdleMeshyProp /\ IdleMeshy /\ IdleGallery

SpecWeather == StartWeather /\ [][NextWeather]_vars

\* One chunk that carries both scatters: a FloraSystem and a PropManager
\* handed the same biome and the noise field of its seed.
StartShore ==
    InitShore /\ InitRng /\ InitChunks /\ IdleNoise /\ IdleHeight /\ IdleHash /\ IdleWeather /\ IdleApp /\ IdleAudio /\ IdleMeshyProp /\ IdleMeshy /\ IdleGallery

SpecShore == StartShore /\ [][NextShore]_vars

StartApp ==
    InitApp /\ InitChunks /\ IdleNoise /\ IdleHeight /\ IdleProps /\ IdleFlora /\ IdleHash /\ IdleWeather /\ IdleAudio /\ IdleMeshyProp /\ IdleMeshy /\ IdleGallery

SpecApp == StartApp /\ [][NextApp]_vars

\* A pending timer fires in the end, and so does every awaited promise settle.
SpecAppLive ==
    StartApp /\ [][NextApp]_vars
    /\ WF_vars(FirstTimer) /\ WF_vars(LaterTimer) /\ WF_vars(Settles)

StartAudio ==
    InitAudio /\ IdleRng /\ InitChunks /\ IdleNoise /\ IdleHeight /\ IdleProps /\ IdleFlora /\ IdleHash /\ IdleWeather /\ IdleApp /\ IdleMeshyProp /\ IdleMeshy /\ IdleGallery

SpecAudio == StartAudio /\ [][NextAudio]_vars

StartMeshyProp ==
    InitMeshyProp /\ IdleRng /\ InitChunks /\ IdleNoise /\ IdleHeight /\ IdleProps /\ IdleFlora /\ IdleHash /\ IdleWeather /\ IdleApp /\ IdleAudio /\ IdleMeshy /\ IdleGallery

SpecMeshyProp == StartMeshyProp /\ [][NextMeshyProp]_vars

StartMeshy ==
    InitMeshy /\ IdleRng /\ InitChunks /\ IdleNoise /\ IdleHeight /\ IdleProps /\ IdleFlora /\ IdleHash /\ IdleWeather /\ IdleApp /\ IdleAudio /\ IdleMeshyProp /\ IdleGallery

SpecMeshy == StartMeshy /\ [][NextMeshy]_vars

StartGallery ==
    InitGallery /\ IdleRng /\ InitChunks /\ IdleNoise /\ IdleHeight /\ IdleProps /\ IdleFlora /\ IdleHash /\ IdleWeather /\ IdleApp /\ IdleAudio /\ IdleMeshyProp /\ IdleMeshy

SpecGallery == StartGallery /\ [][NextGallery]_vars

-----------------------------------------------------------------------------
(* Claims about the chunk manager                                          *)

CoordSet(list) == { <<list[i].x, list[i].z>> : i \in 1..Len(list) }

\* Chunk c is the one whose centre is nearest to world coordinate p, a point
\* halfway between two centres belonging to the higher one.
IsNearestChunk(c, p) == 100 * c - 50 <= p /\ p < 100 * c + 50

ChunkRange == -20..20

WindowOf(cx, cz) == { <<cx + dx, cz + dz>> : dx \in -2..2, dz \in -2..2 }

Occurrences(seq, e) == Cardinality({ i \in 1..Len(seq) : seq[i] = e })

RECURSIVE Reverse(_)
Reverse(seq) == IF seq = <<>> THEN <<>> ELSE Reverse(Tail(seq)) \o <<Head(seq)>>

\* C1: after every tick with the observer at (x, z) the active set is exactly
\* the 25 coordinates of the 5x5 window around (round(x/100), round(z/100)),
\* a half rounding up so that (250, 250) has centre (3, 3); nothing outside
\* the window is active and no coordinate is listed twice.
C1_ActiveWindow ==
    ticked =>
        /\ \E cx \in ChunkRange :
              /\ IsNearestChunk(cx, observer.x)
              /\ \E cz \in ChunkRange :
                    /\ IsNearestChunk(cz, observer.z)
                    /\ CoordSet(chunks) = WindowOf(cx, cz)
        /\ Len(chunks) = 25
        /\ Cardinality(CoordSet(chunks)) = 25
        /\ \A i \in 1..Len(chunks) : chunks[i].key = ChunkKey(chunks[i].x, chunks[i].z)
        /\ (observer.x = 250 /\ observer.z = 250) => CoordSet(chunks) = WindowOf(3, 3)

C1_Witness ==
    /\ ticked
    /\ observer = [x |-> 250, z |-> 250]
    /\ <<1, 1>> \in CoordSet(chunks)
    /\ <<5, 5>> \in CoordSet(chunks)

\* C2: a tick whose window has the same set of coordinates as the active set
\* returns the previous array object (state untouched, nothing re-rendered);
\* a tick whose window differs replaces the state by the whole new window;
\* the decision is the same for any order of the entries of the old array.
C2_NoOpOrReplace ==
    [][lastOp' = "tick" =>
        \E cx \in { c \in ChunkRange : IsNearestChunk(c, observer'.x) },
           cz \in { c \in ChunkRange : IsNearestChunk(c, observer'.z) } :
            /\ \E window \in { WindowOf(cx, cz) }, old \in { CoordSet(chunks) },
                  fresh \in { NewChunks(cx, cz) }, reversed \in { Reverse(chunks) } :
                  /\ (old = window) =>
                       (chunks' = chunks /\ ~rendered' /\ mounted' = mounted /\ built' = <<>>)
                  /\ (old # window) =>
                       (chunks' = fresh /\ rendered' /\ CoordSet(chunks') = window)
                  /\ SetChunksUpdater(reversed, fresh).ref
                       = (IF old = window THEN "prev" ELSE "new")
    ]_vars

C2_Witness ==
    /\ lastOp = "tick"
    /\ ~rendered
    /\ Len(chunks) = 25
    /\ observer.x = 50

\* C3: with the biome fixed, a commit runs the per-chunk builder exactly once
\* for every coordinate that enters the active set and not at all for a
\* coordinate that stays in it (or is not in it).
C3_BuiltOncePerEntry ==
    [][(biome' = biome) =>
        \A c \in CoordSet(chunks) \cup CoordSet(chunks') \cup { built'[i] : i \in 1..Len(built') } :
            Occurrences(built', c) =
                (IF c \in CoordSet(chunks') /\ c \notin CoordSet(chunks) THEN 1 ELSE 0)
    ]_vars

C3_Witness ==
    /\ lastOp = "tick"
    /\ rendered
    /\ Len(built) = 5
    /\ Cardinality(mounted) = 25

\* C4: the per-chunk work of a commit is done for the active set decided in
\* that same tick: every coordinate built belongs to the current active set,
\* and the mounted chunks are those of the current active set, never those
\* of a window already replaced.
C4_BuildsOnlyCurrent ==
    /\ \A i \in 1..Len(built) : built[i] \in CoordSet(chunks)
    /\ { <<inst.deps[3], inst.deps[4]>> : inst \in mounted } = CoordSet(chunks)
    /\ { inst.key : inst \in mounted } = { chunks[i].key : i \in 1..Len(chunks) }

C4_Witness ==
    /\ lastOp = "tick"
    /\ Len(built) = 9
    /\ \A i \in 1..Len(built) : built[i] \in CoordSet(chunks)

-----------------------------------------------------------------------------
(* Claims about the noise field and the height evaluators                  *)

SamplePoints == 0..(PermSize - 1)

SameField(p, q) == \A a, b \in SamplePoints : Noise2D(p, a, b) = Noise2D(q, a, b)

\* C7: the noise field is determined by terrain.seed alone: two consecutive
\* constructions with the same seed, by whichever constructor of the code,
\* sample identically at every input.
C7_SeedDeterminesField ==
    (noisePrev.by # "none" /\ noisePrev.seed = noiseCur.seed)
        => SameField(noisePrev.perm, noiseCur.perm)

HeightBy(e, x, z, layers, perm) ==
    CASE e = "getTerrainHeight" -> getTerrainHeight(x, z, layers, perm)
      [] e = "Terrain" -> TerrainInlineHeight(x, z, layers, perm)
      [] e = "TerrainMath" -> TerrainMathGetHeight(x, z, layers, perm)

\* C8: with an empty layer list every evaluator returns
\* noise(0.02 * x, 0.02 * z) * 5.
C8_EmptyListFallback ==
    hLayers = <<>> =>
        \A e \in Evaluators :
            hOut[e].done => hOut[e].value = 40 * 5 * Noise2D(hPerm, 2 * hx, 2 * hz)

\* The sum of C9 over the layers, in units of 1/HeightDen.
RECURSIVE OneOctaveSum(_, _, _, _)
OneOctaveSum(x, z, layers, perm) ==
    IF layers = <<>> THEN 0
    ELSE LET l == Head(layers)
             s == l.noiseScale
         IN  (40 * Noise2D(perm, (x + CoordDen * l.offsetX) * s, (z + CoordDen * l.offsetZ) * s)
              + 2 * l.roughness
                  * Noise2D(perm, (x + CoordDen * l.offsetX) * 2 * s, (z + CoordDen * l.offsetZ) * 2 * s))
             * l.heightScale
             + OneOctaveSum(x, z, Tail(layers), perm)

\* C9: with a non-empty layer list (of layers whose roughness is not
\* negative) every evaluator returns the sum over the layers of
\* [noise at s + 0.5 * roughness * noise at 2s] * heightScale, both octaves
\* taken at the offset coordinate.
C9_OneDetailOctave ==
    (hLayers # <<>> /\ \A i \in 1..Len(hLayers) : hLayers[i].roughness >= 0) =>
        \A e \in Evaluators :
            hOut[e].done => hOut[e].value = OneOctaveSum(hx, hz, hLayers, hPerm)

NegativeAsZero(layers) ==
    [i \in 1..Len(layers) |->
        IF layers[i].roughness < 0 THEN [layers[i] EXCEPT !.roughness = 0] ELSE layers[i]]

\* C10: a layer list with negative roughness values evaluates, in every
\* evaluator, to what the same list evaluates to with those values set to 0.
C10_NegativeRoughnessIsZero ==
    \A e \in Evaluators :
        hOut[e].done =>
            hOut[e].value = HeightBy(e, hx, hz, NegativeAsZero(hLayers), hPerm)

\* What the two other evaluators do satisfy, in every state.
HeightAgreement ==
    \A e \in {"getTerrainHeight", "Terrain"} :
        hOut[e].done =>
            /\ hLayers = <<>> => hOut[e].value = 40 * 5 * Noise2D(hPerm, 2 * hx, 2 * hz)
            /\ hLayers # <<>> => hOut[e].value = OneOctaveSum(hx, hz, NegativeAsZero(hLayers), hPerm)

-----------------------------------------------------------------------------
(* Claims about the scatter                                                *)

SameInputs(a, b) == a.done /\ b.done /\ a.chunk = b.chunk /\ a.noise = b.noise

\* C5: two runs of the flora scatter for the same biome and chunk (and the
\* same noise field) give identical instance lists: position, mesh, scale,
\* yaw and colour of every instance.
C5_FloraRepeatable ==
    SameInputs(floraPrev, floraCur) => floraPrev.list = floraCur.list

C11_MalformedBiomeNeverFails ==
    propCur.done => ~propCur.threw

RECURSIVE CountWhere(_, _)
CountWhere(seq, flag) ==
    IF seq = <<>> THEN 0
    ELSE (IF Head(seq)[flag] THEN 1 ELSE 0) + CountWhere(Tail(seq), flag)

\* C12: a flora candidate whose height is below waterLevel - 1 is never
\* placed and one exactly at waterLevel - 1 is; a prop candidate is emitted
\* exactly when its height is strictly above waterLevel, one exactly at
\* waterLevel is not.  No instance and no entry lies on the wrong side.
C12_WaterRejection ==
    /\ floraCur.done =>
        /\ \A k \in 1..Len(floraCur.candidates) :
                floraCur.candidates[k].placed
                    <=> floraCur.candidates[k].y >= (fBiome.terrain.waterLevel - 1) * HeightDen
        /\ Len(floraCur.list) = CountWhere(floraCur.candidates, "placed")
        /\ \A k \in 1..Len(floraCur.list) :
                floraCur.list[k].position[2] >= (fBiome.terrain.waterLevel - 1) * HeightDen
    /\ (propCur.done /\ ~propCur.threw) =>
        /\ \A k \in 1..Len(propCur.candidates) :
                propCur.candidates[k].pushed
                    <=> propCur.candidates[k].gy > pBiome.terrain.waterLevel * HeightDen
        /\ Len(propCur.list) = CountWhere(propCur.candidates, "pushed")
        /\ \A k \in 1..Len(propCur.list) :
                propCur.list[k].pos[2] > pBiome.terrain.waterLevel * HeightDen

C12_Witness ==
    /\ floraCur.done
    /\ \E k \in 1..Len(floraCur.candidates) :
        /\ floraCur.candidates[k].y = (fBiome.terrain.waterLevel - 1) * HeightDen
        /\ floraCur.candidates[k].placed
    /\ propCur.done
    /\ \E k \in 1..Len(propCur.candidates) :
        /\ propCur.candidates[k].gy = pBiome.terrain.waterLevel * HeightDen
        /\ ~propCur.candidates[k].pushed
    /\ \E k \in 1..Len(propCur.candidates) : propCur.candidates[k].pushed

\* The rolling hash by its definition, without wrapping: the sum of
\* code * 31^(n - k) over the code units.
RECURSIVE RollingHash(_)
RollingHash(str) ==
    IF str = <<>> THEN 0 ELSE RollingHash(SubSeq(str, 1, Len(str) - 1)) * 31 + str[Len(str)]

\* C13: the string hash is the 31-multiplier rolling hash, wrapped to
\* signed 32 bits after every character and then folded by the absolute
\* value: it is a non-negative integer for every string, and the seed base
\* of definition i in chunk (cx, cz) is hash(biome.name) + 1000 * i
\* + 31 * cx + 17 * cz.
C13_HashAndSeedBase ==
    hashOut.done =>
        /\ hashOut.hash[1] >= 0 /\ hashOut.hash[2] >= 0
        /\ Len(hashIn.name) <= MaxNameLen =>
                hashOut.hash[1] * 65536 + hashOut.hash[2] = RollingHash(hashIn.name)
        /\ hashIn.name = Str_MossyArchipelago => hashOut.hash = <<11559, 16516>>
        /\ hashIn.name = Str_CrimsonDunes => hashOut.hash = <<30377, 14678>>
        /\ hashIn.name = Str_FourHan => hashOut.hash = <<9400, 41792>>
        /\ hashIn.name = Str_polygenelubricants => hashOut.hash = <<32768, 0>>
        /\ hashOut.fits =>
                hashOut.seedValue = hashOut.hash[1] * 65536 + hashOut.hash[2]
                    + 1000 * hashIn.propIndex + 31 * hashIn.chunkX + 17 * hashIn.chunkZ

C13_Witness ==
    /\ hashOut.done
    /\ hashIn.name = Str_CrimsonDunes
    /\ hashIn.propIndex = 1
    /\ hashIn.chunkX = -2
    /\ hashIn.chunkZ = 1
    /\ hashOut.seedValue = 1990801750 + 1000 - 62 + 17

\* Densities between 0 and 1, in hundredths.
DensityGrid == {0, 4, 5, 10, 20, 50, 99, 100}

CandidatesOf(run, propIndex) ==
    Cardinality({ k \in 1..Len(run.candidates) : run.candidates[k].propIndex = propIndex })

EmittedOf(run, propIndex) ==
    Cardinality({ k \in 1..Len(run.candidates) :
                    run.candidates[k].propIndex = propIndex /\ run.candidates[k].pushed })

\* C14: a definition yields floor(density * 20) candidates; the count is
\* monotone in density, is zero for density 0, and the number of entries
\* emitted for a definition never exceeds it.
C14_CandidateCount ==
    /\ \A d1 \in DensityGrid, d2 \in DensityGrid :
            d1 <= d2 => PropCount([density |-> d1]) <= PropCount([density |-> d2])
    /\ (propCur.done /\ ~propCur.threw) =>
        /\ Len(propCur.list) = CountWhere(propCur.candidates, "pushed")
        /\ \A i \in 1..Len(pBiome.props) :
            /\ CandidatesOf(propCur, i - 1) = (pBiome.props[i].density * 20) \div 100
            /\ pBiome.props[i].density = 0 => CandidatesOf(propCur, i - 1) = 0
            /\ EmittedOf(propCur, i - 1) <= (pBiome.props[i].density * 20) \div 100
            /\ \A j \in 1..Len(pBiome.props) :
                    pBiome.props[i].density <= pBiome.props[j].density
                        => CandidatesOf(propCur, i - 1) <= CandidatesOf(propCur, j - 1)

C14_Witness ==
    /\ propCur.done
    /\ pBiome = SparseBiome
    /\ CandidatesOf(propCur, 0) = 0
    /\ CandidatesOf(propCur, 1) = 4
    /\ EmittedOf(propCur, 1) \in 1..3

(***************************************************************************)
(* Claims about the flora morphology                                       *)
(***************************************************************************)

\* tempNorm * 150 of the biome: (clamp(temperature, -50, 100) + 50).
TempNorm150(b) ==
    (IF b.parameters.temperature < -50 THEN -50
     ELSE IF b.parameters.temperature > 100 THEN 100
     ELSE b.parameters.temperature) + 50

PlacedMeshes(run) ==
    LET placed == SelectSeq(run.candidates, LAMBDA c : c.placed)
    IN  [k \in 1..Len(placed) |-> placed[k].mesh]

\* C15: the class of a placed candidate is a total function of tempNorm
\* (in [0, 1]) and its draw: spike exactly when tempNorm < 0.3 and the draw
\* is above 0.4, bush exactly when tempNorm > 0.7 and the draw is above 0.4,
\* tree in every other case; with tempNorm in [0.3, 0.7] always tree.
C15_MorphologyClass ==
    floraCur.done =>
        /\ TempNorm150(fBiome) \in 0..150
        /\ [k \in 1..Len(floraCur.list) |-> floraCur.list[k].mesh] = PlacedMeshes(floraCur)
        /\ \A k \in 1..Len(floraCur.candidates) :
            floraCur.candidates[k].placed =>
                LET c == floraCur.candidates[k]
                    cold == 10 * TempNorm150(fBiome) < 3 * 150
                    hot == 10 * TempNorm150(fBiome) > 7 * 150
                    high == 10 * c.rand > 4 * RngModulus
                IN  /\ c.mesh \in {1, 2, 3}
                    /\ c.mesh = 2 <=> (cold /\ high)
                    /\ c.mesh = 3 <=> (hot /\ high)
                    /\ c.mesh = 1 <=> ~((cold \/ hot) /\ high)
                    /\ (~cold /\ ~hot) => c.mesh = 1

C15_Witness ==
    /\ floraCur.done
    /\ fBiome.parameters.temperature = -5
    /\ \E k \in 1..Len(floraCur.candidates) :
        /\ floraCur.candidates[k].placed
        /\ 10 * floraCur.candidates[k].rand > 4 * RngModulus
        /\ floraCur.candidates[k].mesh = 1

(***************************************************************************)
(* Claims about the weather                                                *)
(***************************************************************************)

HalfBox == (boxSize * PosDen) \div 2

\* C16: on every frame the eased intensity moves toward its target
\* (params.intensity when active, 0 otherwise) at 0.5 per second: it changes
\* by at most 0.5 * dt, stays between the old value and the target, and no
\* step other than a frame changes it, a flip of active least of all.
C16_EasingRate ==
    [][ /\ wClock' = wClock => intensityValue' = intensityValue
        /\ wClock' # wClock =>
            LET dt == wClock' - wClock
                target == IF wActive THEN wParams.intensity ELSE 0
                step == (IntensityDen * dt) \div (2 * TimeDen)
            IN  /\ Abs(intensityValue' - intensityValue) <= step
                /\ Min(intensityValue, target) <= intensityValue'
                /\ intensityValue' <= Max(intensityValue, target)
                /\ intensityValue' = target \/ Abs(intensityValue' - intensityValue) = step
      ]_vars

C16_Witness ==
    /\ ~wActive
    /\ wParams = RainProfile
    /\ intensityValue = 5
    /\ wVisible
    /\ wClock = 3

\* C17: for every particle and axis, if after the motion update of a frame
\* the particle is more than 50 from the camera on that axis, it is moved by
\* exactly 100 on that axis and ends the frame within 50 of the camera.
C17_WrapLandsInside ==
    [][ (wClock' # wClock /\ wVisible') =>
            \A i \in 1..Len(wPositions), a \in 1..3 :
                LET moved == wPositions[i][a] + wVelocities[i][a] * (wClock' - wClock)
                IN  Abs(moved - wCamera[a]) > HalfBox =>
                        /\ Abs(wPositions'[i][a] - moved) = boxSize * PosDen
                        /\ Abs(wPositions'[i][a] - wCamera[a]) <= HalfBox
      ]_vars

\* C18: after every frame in which the field is visible every particle lies
\* within 50 of the camera on each axis, whatever frames, camera movements,
\* hidden periods and flips of active came before.
C18_ConfinedToCube ==
    [][ (wClock' # wClock /\ wVisible') =>
            \A i \in 1..Len(wPositions'), a \in 1..3 :
                Abs(wPositions'[i][a] - wCamera[a]) <= HalfBox
      ]_vars

(***************************************************************************)
(* Claims about the seeds of the prop scatter                              *)
(***************************************************************************)

\* C19: two different chunks of one 5x5 window never use the same draw
\* seeds for the same definition, so no candidate of one gets the local
\* (x, z) offset of a candidate of the other.
C19_ChunkStreamsDisjoint ==
    (/\ propPrev.done /\ propCur.done
     /\ propPrev.chunk # propCur.chunk
     /\ Abs(propPrev.chunk[1] - propCur.chunk[1]) <= 2 * RENDER_DISTANCE
     /\ Abs(propPrev.chunk[2] - propCur.chunk[2]) <= 2 * RENDER_DISTANCE
     /\ propPrev.noise = propCur.noise) =>
        \A a \in 1..Len(propPrev.candidates), b \in 1..Len(propCur.candidates) :
            propPrev.candidates[a].propIndex = propCur.candidates[b].propIndex =>
                /\ propPrev.candidates[a].seedX # propCur.candidates[b].seedX
                /\ propPrev.candidates[a].seedZ # propCur.candidates[b].seedZ
                /\ <<propPrev.candidates[a].lx, propPrev.candidates[a].lz>>
                        # <<propCur.candidates[b].lx, propCur.candidates[b].lz>>

\* C20: within one chunk the seeds of the x draws and of the z draws of all
\* candidates of all definitions are pairwise different, and so are the
\* seeds of the emitted entries.
C20_SeedsDistinctInChunk ==
    (propCur.done /\ ~propCur.threw) =>
        /\ \A a \in 1..Len(propCur.candidates), b \in 1..Len(propCur.candidates) :
            /\ propCur.candidates[a].seedZ = propCur.candidates[a].seedX + 100
            /\ propCur.candidates[a].seedX # propCur.candidates[b].seedZ
            /\ a # b => /\ propCur.candidates[a].seedX # propCur.candidates[b].seedX
                        /\ propCur.candidates[a].seedZ # propCur.candidates[b].seedZ
        /\ \A a \in 1..Len(propCur.list), b \in 1..Len(propCur.list) :
            a # b => propCur.list[a].seed # propCur.list[b].seed

C20_Witness ==
    /\ propCur.done
    /\ pBiome = DenseBiome
    /\ CandidatesOf(propCur, 0) = 20
    /\ CandidatesOf(propCur, 1) = 4
    /\ Len(propCur.list) = 24

-----------------------------------------------------------------------------
(* C21: the shift of the window                                            *)

CentreOf(p) == CHOOSE c \in ChunkRange : IsNearestChunk(c, p)

\* C21: on a tick that follows another tick, when the centre chunk of the
\* observer has moved by exactly one chunk along one axis, exactly 5
\* coordinates enter the active set, exactly 5 leave it and 20 stay; on every
\* such tick a coordinate is active afterwards exactly when it lies in the
\* window of the new centre, so it becomes active on the tick it enters the
\* window and absent on the tick it leaves it.
C21_WindowShift ==
    [][ (ticked /\ lastOp' = "tick") =>
            \E old \in {CoordSet(chunks)}, new \in {CoordSet(chunks')},
               cx \in {CentreOf(observer.x)},
               cz \in {CentreOf(observer.z)},
               nx \in {CentreOf(observer'.x)},
               nz \in {CentreOf(observer'.z)} :
              \E was \in {WindowOf(cx, cz)}, now \in {WindowOf(nx, nz)} :
                /\ Abs(nx - cx) + Abs(nz - cz) = 1 =>
                        /\ Cardinality(new \ old) = 5
                        /\ Cardinality(old \ new) = 5
                        /\ Cardinality(new \cap old) = 20
                /\ new = now
                /\ new \ old = now \ was
                /\ old \ new = was \ now
      ]_vars

\* The centre has moved from chunk (1, 0) to chunk (2, 0): the five chunks of
\* the column x = 4 were built by this tick.
C21_Witness ==
    /\ ticked
    /\ lastOp = "tick"
    /\ CentreOf(observer.x) = 2
    /\ CentreOf(observer.z) = 0
    /\ Len(built) = 5
    /\ <<4, 0>> \in { built[i] : i \in 1..Len(built) }

-----------------------------------------------------------------------------
(* C22, C23, C26, C27: App                                                 *)

\* C22: whenever auto-weather is disabled (weatherEnabled is false),
\* weatherActive is false and stays false until it is enabled again: no timer
\* scheduled while it was enabled turns the weather on after the disabling.
C22_DisabledMeansInactive == ~weatherEnabled => ~weatherActive

\* C23: while auto-weather stays enabled the scheduler keeps running: after
\* every toggle another toggle happens in the end, so weatherActive does not
\* keep one value for ever, also when a timer fired during a world generation
\* that has finished since.
C23_SchedulerKeepsRunning ==
    /\ (weatherEnabled /\ weatherActive) ~> (~weatherEnabled \/ ~weatherActive)
    /\ (weatherEnabled /\ ~weatherActive) ~> (~weatherEnabled \/ weatherActive)

\* C26: handleRegenerate excludes itself: at most one invocation is in flight,
\* it is in flight exactly while isGeneratingRef is set, and an invocation
\* made meanwhile returns at once, calling no service and changing no state.
C26_RegenerateExclusive ==
    [][ /\ Len(pipelines') <= 1
        /\ isGeneratingRef' <=> Len(pipelines') = 1
        /\ (isGeneratingRef /\ appOp' \in {"ignored", "started"}) =>
                /\ appOp' = "ignored"
                /\ UNCHANGED <<weatherEnabled, weatherActive, armed, chained, nextToggle,
                               mathRandomState, isGeneratingRef, isGenerating, loadingStep,
                               pipelines, appBiome, runs, serviceCalls, lastRun>>
      ]_vars

\* An invocation was ignored while another one waits for the texture.
C26_Witness ==
    /\ appOp = "ignored"
    /\ Len(pipelines) = 1
    /\ pipelines[1].step = "texture"
    /\ serviceCalls.texture = 1

\* C27: when an invocation of handleRegenerate finishes, whatever its outcome,
\* isGeneratingRef and isGenerating are false and loadingStep is empty; the
\* biome is replaced exactly when the description and the data step both
\* succeeded, whatever became of the texture and the skybox step.
C27_FinishAndReplace ==
    [][ Len(pipelines') < Len(pipelines) =>
            /\ ~isGeneratingRef'
            /\ ~isGenerating'
            /\ loadingStep' = ""
            /\ appBiome' # appBiome <=>
                    (lastRun'.description = "ok" /\ lastRun'.data = "ok")
            /\ appBiome' # appBiome => appBiome'.version = lastRun'.run
      ]_vars

\* A run whose texture and skybox steps both failed has set its biome.
C27_Witness ==
    /\ appOp = "settled"
    /\ lastRun.texture = "failed"
    /\ lastRun.skybox = "failed"
    /\ appBiome.version = lastRun.run
    /\ ~isGenerating
    /\ loadingStep = ""

-----------------------------------------------------------------------------
(* C24: one audio generation per biome                                     *)

PendingWorkers(biomeId) ==
    { w \in 1..Len(audioWorkers) :
        audioWorkers[w].biome = biomeId /\ audioWorkers[w].status = "pending" }

-----------------------------------------------------------------------------
(* C25: the model cache                                                    *)

\* C25: for a given prompt generate3DModel is started at most once, however
\* many MeshyProp instances with that prompt are mounted, together or one
\* after another, and however their effects run again.
C25_GenerateOncePerPrompt == \A p \in MeshyPrompts : generateStarts[p] <= 1

-----------------------------------------------------------------------------
(* C28, C29: the requests of generate3DModel                               *)

BackoffSchedule == <<2000, 4000, 8000, 16000, 32000>>

StillRunning(task) == task \in {"PENDING", "IN_PROGRESS"}

\* C28: a create call sends at most 5 POST requests; it sends another one
\* only after a 429, having waited 2000 ms before the first retry and twice
\* the wait before for each later one; any other response that is not OK
\* makes it throw at once; an OK response makes it return the task id of the
\* response, no POST following; five 429 in a row end in the max-retries
\* error.
C28_CreateRetries ==
    [][ /\ mPosts' <= 5
        /\ mWaits' = SubSeq(BackoffSchedule, 1, Len(mWaits'))
        /\ mPc' = "posting" => mPosts' = Len(mWaits') + 1
        /\ mWaits' # mWaits /\ mWaits' # <<>> => mResponse'.status = 429
        /\ mPc = "posting" =>
            /\ (mResponse'.status # 429 /\ ~(mResponse'.status \in 200..299)) =>
                    mPc' = "threw" /\ mPosts' = mPosts
            /\ mResponse'.status \in 200..299 =>
                    /\ mPosts' = mPosts
                    /\ mPc' = "polling"
                    /\ mPolled' = mResponse'.result
                    /\ IF mStage = "preview"
                       THEN previewTaskId' = mResponse'.result
                       ELSE refineTaskId' = mResponse'.result
            /\ mResponse'.status = 429 => mPc' = "backoff" /\ mPosts' = mPosts
        /\ (mPc = "backoff" /\ mPosts = 5) =>
                mPc' = "threw" /\ mResult' = "Max retries exceeded"
        /\ mResult' = "Max retries exceeded" =>
                mPosts' = 5 /\ mWaits' = BackoffSchedule /\ mResponse'.status = 429
        /\ (mPc \in {"polling", "pollWait"} /\ mStage' = mStage) => mPosts' = mPosts
      ]_vars

\* The refine call got 429 five times and gave up.
C28_Witness ==
    /\ mStage = "refine"
    /\ mPc = "threw"
    /\ mResult = "Max retries exceeded"
    /\ mPosts = 5
    /\ mWaits = BackoffSchedule

\* C29: pollTask sends at most 120 status requests; at the first response
\* that reports SUCCEEDED with a GLB URL it returns, at the first FAILED, or
\* SUCCEEDED without a GLB URL, it throws, and it asks again only after a
\* response that reports PENDING or IN_PROGRESS; after 120 such responses it
\* throws the timeout; nothing is asked after a terminal status; the refine
\* task is created only after the preview task was reported SUCCEEDED.
C29_PollTerminates ==
    [][ /\ mPolls' <= 120
        /\ mPc = "polling" /\ mResponse'.status \in 200..299 =>
            /\ mPolls' = mPolls
            /\ (mResponse'.task = "SUCCEEDED" /\ mResponse'.glb) =>
                    IF mStage = "refine"
                    THEN mPc' = "returned" /\ mResult' = "glb"
                    ELSE mStage' = "refine" /\ mPc' \in {"posting", "threw"}
            /\ (mResponse'.task = "SUCCEEDED" /\ ~mResponse'.glb) => mPc' = "threw"
            /\ mResponse'.task = "FAILED" => mPc' = "threw"
            /\ StillRunning(mResponse'.task) => mPc' = "pollWait"
        /\ attempt' = attempt + 1 =>
                /\ mResponse.status \in 200..299
                /\ StillRunning(mResponse.task)
        /\ (mPc = "pollWait" /\ mPolls = 120) =>
                mPc' = "threw" /\ mResult' = "Timed out waiting for Meshy task."
        /\ (mResult' = "Timed out waiting for Meshy task." /\ mResult # mResult') =>
                mPolls = 120 /\ StillRunning(mResponse.task)
        /\ mPc \in {"returned", "threw"} => UNCHANGED <<mPosts, mPolls>>
        /\ mStage' # mStage =>
                /\ mStage = "preview" /\ mStage' = "refine"
                /\ mPolled = previewTaskId
                /\ mResponse'.task = "SUCCEEDED" /\ mResponse'.glb
      ]_vars

\* The refine task was polled 120 times and never finished.
C29_Witness ==
    /\ mStage = "refine"
    /\ mPolled = refineTaskId
    /\ mResult = "Timed out waiting for Meshy task."
    /\ mPolls = 120
    /\ attempt = 120

-----------------------------------------------------------------------------
(* C30: the round trip through the gallery                                 *)

\* C30: a biome saved with saveBiomeToGallery and read back with
\* loadBiomeById or fetchGalleryBiomes has the terrain layers it had
\* (noiseScale, heightScale, roughness and offsets, values equal to 0
\* included), the same waterLevel and seed, and the same list of props.
C30_RoundTrip ==
    \A i \in 1..Len(loadedBiomes) :
        /\ loadedBiomes[i].terrain.layers = savedBiome.terrain.layers
        /\ loadedBiomes[i].terrain.waterLevel = savedBiome.terrain.waterLevel
        /\ loadedBiomes[i].terrain.seed = savedBiome.terrain.seed
        /\ "props" \in DOMAIN loadedBiomes[i]
        /\ loadedBiomes[i].props = savedBiome.props

====
